---- MODULE Spec2Model ----
(***************************************************************************)
(* Location-code resolution and responsible-party assignment of the        *)
(* logistics accrual pipeline (location_codes_finder.py, matrix_mapping.py,*)
(* main_logic.py).                                                         *)
(*                                                                         *)
(* Text is modelled as TLA+ strings, read character by character with      *)
(* Len, SubSeq and \o.  Python's None / NaN is the value None.             *)
(*                                                                         *)
(* Specifications:                                                         *)
(*   SpecNorm  format_code_4 applied to bounded strings, then re-applied   *)
(*   SpecRP    MatrixMapper.determine_profit_center applied to one row     *)
(*   SpecFinder  a Location_Codes_Finder built, then one method called     *)
(*   Spec      run_pipeline, step by step, on one transaction record       *)
(*   SpecTwice the code resolution of one party, run in two processes      *)
(*   SpecAlias standardize_input_columns applied to a one-record sheet     *)
(*   SpecApp   a session of streamlit_app.py: script runs and clicks       *)
(***************************************************************************)
EXTENDS Integers, Sequences, FiniteSets, TLC

VARIABLES
    pc,       \* position in the operation being run
    arg,      \* argument(s) of the function under study; the caller's sheet
    ret,      \* results returned so far (all but Spec)
    refs,     \* reference tables handed to run_pipeline
    finder,   \* Location_Codes_Finder fields
    locals,   \* run_pipeline locals (master_combined_set, wipe masks, sheet)
    row       \* the transaction record and its derived columns

vars == <<pc, arg, ret, refs, finder, locals, row>>

\* Python None, and pandas NaN / NA (the code tests both with pd.isna)
None == "<None>"

\* value of a variable the running specification does not use
Idle == "idle"

\* a column the sheet does not have yet
NoColumn == None

-----------------------------------------------------------------------------
(* Bounds *)

\* longest string given to format_code_4 in SpecNorm
MaxCodeLen == 5

-----------------------------------------------------------------------------
(* Characters and Python str methods *)

Ch(s, i) == SubSeq(s, i, i)

Digits == {"0", "1", "2", "3", "4", "5", "6", "7", "8", "9"}

LowerAlpha == "abcdefghijklmnopqrstuvwxyz"

UpperAlpha == "ABCDEFGHIJKLMNOPQRSTUVWXYZ"

UpperLetters == {Ch(UpperAlpha, i) : i \in 1..Len(UpperAlpha)}

LowerLetters == {Ch(LowerAlpha, i) : i \in 1..Len(LowerAlpha)}

IsSpaceCh(c) == c \in {" ", "\t", "\n", "\r"}

SetMin(S) == CHOOSE m \in S : \A k \in S : m <= k

SetMax(S) == CHOOSE m \in S : \A k \in S : m >= k

UpperCh(c) ==
    IF c \in LowerLetters
    THEN Ch(UpperAlpha, CHOOSE i \in 1..Len(LowerAlpha) : Ch(LowerAlpha, i) = c)
    ELSE c

LowerCh(c) ==
    IF c \in UpperLetters
    THEN Ch(LowerAlpha, CHOOSE i \in 1..Len(UpperAlpha) : Ch(UpperAlpha, i) = c)
    ELSE c

RECURSIVE UpperFrom(_, _)
UpperFrom(s, i) ==
    IF i > Len(s) THEN "" ELSE UpperCh(Ch(s, i)) \o UpperFrom(s, i + 1)

\* str.upper()
Upper(s) == UpperFrom(s, 1)

RECURSIVE LowerFrom(_, _)
LowerFrom(s, i) ==
    IF i > Len(s) THEN "" ELSE LowerCh(Ch(s, i)) \o LowerFrom(s, i + 1)

\* str.lower()
Lower(s) == LowerFrom(s, 1)

\* str.strip()
Strip(s) ==
    LET keep == {i \in 1..Len(s) : ~IsSpaceCh(Ch(s, i))}
    IN  IF keep = {} THEN "" ELSE SubSeq(s, SetMin(keep), SetMax(keep))

RECURSIVE RemoveSpacesFrom(_, _)
RemoveSpacesFrom(s, i) ==
    IF i > Len(s) THEN ""
    ELSE (IF Ch(s, i) = " " THEN "" ELSE Ch(s, i)) \o RemoveSpacesFrom(s, i + 1)

\* str.replace(" ", "")
RemoveSpaces(s) == RemoveSpacesFrom(s, 1)

\* str.isdigit(): non-empty and every character a digit
IsDigitStr(s) == s # "" /\ \A i \in 1..Len(s) : Ch(s, i) \in Digits

\* sub in s
Contains(s, sub) ==
    \E i \in 1..(Len(s) - Len(sub) + 1) : SubSeq(s, i, i + Len(sub) - 1) = sub

\* s.startswith(pre)
StartsWith(s, pre) == Len(s) >= Len(pre) /\ SubSeq(s, 1, Len(pre)) = pre

RECURSIVE Zeros(_)
Zeros(n) == IF n <= 0 THEN "" ELSE "0" \o Zeros(n - 1)

\* str.zfill(width): zeros go after a leading sign character
Zfill(s, width) ==
    IF Len(s) >= width THEN s
    ELSE IF s # "" /\ Ch(s, 1) \in {"+", "-"}
         THEN Ch(s, 1) \o Zeros(width - Len(s)) \o SubSeq(s, 2, Len(s))
         ELSE Zeros(width - Len(s)) \o s

\* s[-n:]
LastN(s, n) == IF Len(s) <= n THEN s ELSE SubSeq(s, Len(s) - n + 1, Len(s))

-----------------------------------------------------------------------------
(* location_codes_finder.py: Location_Codes_Finder.format_code_4 *)

\* width of a standardized code
CodeWidth == 4

\* format_code_4 with the trim applied after the padding instead of before
format_code_4_StripLate(code) ==
    IF code = None THEN None
    ELSE LET s == Strip(Zfill(Upper(code), CodeWidth))
         IN  IF s = "" THEN None
             ELSE IF IsDigitStr(s) THEN LastN(s, CodeWidth)
             ELSE s

\* format_code_4 keeping every digit of an all-digit code
format_code_4_KeepAllDigits(code) ==
    IF code = None THEN None
    ELSE LET s == Upper(Strip(code))
         IN  IF s = "" THEN None ELSE Zfill(s, CodeWidth)

format_code_4(code) ==
    IF code = None THEN None
    ELSE LET s == Upper(Strip(code))
         IN  IF s = "" THEN None
             ELSE IF IsDigitStr(s) THEN LastN(Zfill(s, CodeWidth), CodeWidth)
             ELSE Zfill(s, CodeWidth)

-----------------------------------------------------------------------------
(* SpecNorm: format_code_4 on every string of at most MaxCodeLen characters *)

NormAlphabet == {"0", "9", "K", "k", " ", "-"}

RECURSIVE StringsUpTo(_, _)
StringsUpTo(alphabet, n) ==
    IF n = 0 THEN {""}
    ELSE LET shorter == StringsUpTo(alphabet, n - 1)
         IN  shorter \cup
             {s \o c : s \in {t \in shorter : Len(t) = n - 1}, c \in alphabet}

NormInputs == StringsUpTo(NormAlphabet, MaxCodeLen) \cup {None}

NormInit ==
    /\ pc = "norm_call"
    /\ arg \in NormInputs
    /\ ret = <<>>
    /\ refs = Idle /\ finder = Idle /\ locals = Idle /\ row = Idle

\* v = format_code_4(x)
NormCall ==
    /\ pc = "norm_call"
    /\ ret' = <<format_code_4(arg)>>
    /\ pc' = "norm_again"
    /\ UNCHANGED <<arg, refs, finder, locals, row>>

\* format_code_4(v), for a present v
NormAgain ==
    /\ pc = "norm_again"
    /\ ret[1] # None
    /\ ret' = Append(ret, format_code_4(ret[1]))
    /\ pc' = "norm_done"
    /\ UNCHANGED <<arg, refs, finder, locals, row>>

NormNext == NormCall \/ NormAgain

SpecNorm == NormInit /\ [][NormNext]_vars

-----------------------------------------------------------------------------
(* Claims about the Code Normalizer *)

\* plain left padding with zeros, no sign handling
LeftPad(s, width) == Zeros(width - Len(s)) \o s

\* C9: normalize returns absent for None/NaN/blank input; for an all-digit
\* input (after trim) the rightmost 4 characters of the input zero-padded on
\* the left to at least 4; for any other input the trimmed, uppercased input
\* zero-padded on the left to 4 characters and never truncated.
C9_NormalizeResult ==
    Len(ret) >= 1 =>
        LET t == IF arg = None THEN "" ELSE Strip(arg)
        IN  ret[1] = IF t = "" THEN None
                     ELSE IF IsDigitStr(t) THEN LastN(LeftPad(t, 4), 4)
                     ELSE LeftPad(Upper(t), 4)

\* C10: for every input x for which normalize(x) is present,
\* normalize(normalize(x)) = normalize(x).
C10_Idempotent == Len(ret) = 2 => ret[2] = ret[1]

\* a present result that needed padding, upper-casing and trimming was
\* normalized a second time
C10_Witness ==
    /\ pc = "norm_done"
    /\ Len(ret) = 2
    /\ ret[1] # arg
    /\ arg = " 9k "

\* s is uppercase: upper-casing leaves it as it is
IsUpper(s) == Upper(s) = s

-----------------------------------------------------------------------------
(* coding_matrix.py is imported by matrix_mapping.py and is not part of the  *)
(* sources at hand: the two tables are written from the specification       *)
(* (a special type-mapping table of fixed codes, and a general matrix from  *)
(* a type pair to ORIGIN or DESTINATION).                                   *)

SPECIAL_TYPE_MAPPINGS ==
    (<<"LC", "US DC">> :> "THIRD PARTY") @@ (<<"LC", "LC">> :> "THIRD PARTY")

Coding_Matrix ==
    (<<"MM", "CA DC">> :> "ORIGIN") @@
    (<<"MM", "US DC">> :> "DESTINATION") @@
    (<<"US DC", "US DC">> :> "DESTINATION") @@
    (<<"US DC", "CA DC">> :> "ORIGIN") @@
    (<<"US DC", "NON-CINTAS">> :> "ORIGIN") @@
    (<<"NON-CINTAS", "US DC">> :> "DESTINATION") @@
    (<<"LC", "US DC">> :> "DESTINATION")

-----------------------------------------------------------------------------
(* matrix_mapping.py *)

SPECIAL_CODES == {"0K35", "024P", "067N"}

\* _first_nonblank(*vals)
RECURSIVE first_nonblank(_)
first_nonblank(vals) ==
    IF vals = <<>> THEN ""
    ELSE LET v == Head(vals)
         IN  IF v = None THEN first_nonblank(Tail(vals))
             ELSE LET s == Strip(v)
                  IN  IF s # "" /\ Upper(s) \notin {"NAN", "NONE"} THEN s
                      ELSE first_nonblank(Tail(vals))

\* consignor_type = str(row.get("Final Consignor Type", "")).strip().upper()
consignor_type(r) == Upper(Strip(r.Final_Consignor_Type))

\* consignee_type_norm: "CA DC" and "CADC" are the same type
consignee_type_norm(r) == RemoveSpaces(Upper(Strip(r.Final_Consignee_Type)))

\* Each rule yields its return value, or None when evaluation goes on.

\* if consignor_type == "MM" and consignee_type_norm == "CADC": return "037Q"
rule_override(r) ==
    IF consignor_type(r) = "MM" /\ consignee_type_norm(r) = "CADC"
    THEN "037Q" ELSE None

rule_special_codes(r) ==
    IF /\ r.Final_Consignee_Code \in SPECIAL_CODES
       /\ consignee_type_norm(r) \in {"USDC", "CADC"}
       /\ consignor_type(r) # "LC"
    THEN r.Final_Consignee_Code ELSE None

carrier_is_omnitrans(r) ==
    r.Carrier_Name # None /\ Contains(Lower(r.Carrier_Name), "omnitrans")

\* the carrier rule with the type-field code tried before the address code
rule_omnitrans_TypeFieldFirst(r) ==
    IF carrier_is_omnitrans(r)
    THEN LET candidate == first_nonblank(<<r.Extracted_Consignee_Code,
                                           r.Dest_Type_Consignee_Code,
                                           r.Addr_Lookup_Consignee_Code,
                                           r.Final_Consignor_Code>>)
         IN  IF candidate # "" THEN candidate ELSE None
    ELSE None

rule_omnitrans(r) ==
    IF carrier_is_omnitrans(r)
    THEN LET candidate == first_nonblank(<<r.Extracted_Consignee_Code,
                                           r.Addr_Lookup_Consignee_Code,
                                           r.Dest_Type_Consignee_Code,
                                           r.Final_Consignor_Code>>)
         IN  IF candidate # "" THEN candidate ELSE None
    ELSE None

type_key(r) == <<r.Final_Consignor_Type, r.Final_Consignee_Type>>

rule_special_type(r) ==
    IF type_key(r) \in DOMAIN SPECIAL_TYPE_MAPPINGS
    THEN SPECIAL_TYPE_MAPPINGS[type_key(r)] ELSE None

rule_matrix(r) ==
    IF type_key(r) \in DOMAIN Coding_Matrix
    THEN LET direction == Coding_Matrix[type_key(r)]
         IN  IF direction = "ORIGIN" THEN r.Final_Consignor_Code
             ELSE IF direction = "DESTINATION" THEN r.Final_Consignee_Code
             ELSE None
    ELSE None

\* the first rule that returns decides
RECURSIVE first_return(_)
first_return(rules) ==
    IF rules = <<>> THEN "UNKNOWN"
    ELSE IF Head(rules) # None THEN Head(rules)
    ELSE first_return(Tail(rules))

\* determine_profit_center with the special-codes rule tried before the override
determine_profit_center_SpecialFirst(r) ==
    first_return(<<rule_special_codes(r), rule_override(r), rule_omnitrans(r),
                   rule_special_type(r), rule_matrix(r)>>)

\* determine_profit_center with the carrier rule tried before the special codes
determine_profit_center_CarrierFirst(r) ==
    first_return(<<rule_override(r), rule_omnitrans(r), rule_special_codes(r),
                   rule_special_type(r), rule_matrix(r)>>)

\* determine_profit_center with the general matrix tried before the special table
determine_profit_center_MatrixFirst(r) ==
    first_return(<<rule_override(r), rule_special_codes(r), rule_omnitrans(r),
                   rule_matrix(r), rule_special_type(r)>>)

\* MatrixMapper.determine_profit_center(row)
determine_profit_center(r) ==
    first_return(<<rule_override(r), rule_special_codes(r), rule_omnitrans(r),
                   rule_special_type(r), rule_matrix(r)>>)

-----------------------------------------------------------------------------
(* SpecRP: determine_profit_center on one fully resolved row *)

RPRows ==
    [ Final_Consignor_Type       : {"MM", " mm ", "LC", "lc ", "US DC", "NON-CINTAS"},
      Final_Consignee_Type       : {"CA DC", "CADC", "US DC", "LC", "NON-CINTAS"},
      Final_Consignor_Code       : {"0004", ""},
      Final_Consignee_Code       : {"0K35", "067N", "0095", "NON-CINTAS"},
      Carrier_Name               : {None, "Omnitrans Freight", "FEDEX"},
      Extracted_Consignee_Code   : {None, "", "0095"},
      Addr_Lookup_Consignee_Code : {"", "0021"},
      Dest_Type_Consignee_Code   : {"", "0536"} ]

RPInit ==
    /\ pc = "rp_call"
    /\ arg \in RPRows
    /\ ret = <<>>
    /\ refs = Idle /\ finder = Idle /\ locals = Idle /\ row = Idle

\* mapper.determine_profit_center(row)
RPCall ==
    /\ pc = "rp_call"
    /\ ret' = <<determine_profit_center(arg)>>
    /\ pc' = "rp_done"
    /\ UNCHANGED <<arg, refs, finder, locals, row>>

RPNext == RPCall

SpecRP == RPInit /\ [][RPNext]_vars

-----------------------------------------------------------------------------
(* Claims about the Responsible Party Decider *)

\* rule 1 as the claim words it
ClaimRule1(r) ==
    /\ Upper(Strip(r.Final_Consignor_Type)) = "MM"
    /\ RemoveSpaces(r.Final_Consignee_Type) = "CADC"

\* C2: for every record whose Final Consignor Type (trimmed, uppercased) is
\* "MM" and whose Final Consignee Type with all spaces removed is "CADC", the
\* result is "037Q", whatever the consignee code, the carrier and the tables.
C2_OverrideFirst ==
    (pc = "rp_done" /\ ClaimRule1(arg)) => ret[1] = "037Q"

\* rule 1 decided a row that the special codes, the named carrier and the
\* general matrix would each have decided otherwise
C2_Witness ==
    /\ pc = "rp_done"
    /\ ClaimRule1(arg)
    /\ ret[1] = "037Q"
    /\ arg.Final_Consignee_Code \in SPECIAL_CODES
    /\ carrier_is_omnitrans(arg)
    /\ arg.Extracted_Consignee_Code = "0095"
    /\ type_key(arg) \in DOMAIN Coding_Matrix

\* rule 2 as the claim words it (types read as rule 1 reads them)
ClaimRule2(r) ==
    /\ r.Final_Consignee_Code \in {"0K35", "024P", "067N"}
    /\ RemoveSpaces(r.Final_Consignee_Type) \in {"USDC", "CADC"}
    /\ Upper(Strip(r.Final_Consignor_Type)) # "LC"

\* C3: when rule 1 does not match, the Final Consignee Code is a special
\* code, the consignee type without spaces is USDC or CADC and the consignor
\* type is not LC, the result is the Final Consignee Code, even if the
\* carrier is the named one or the type pair is in a matrix table.
C3_SpecialCodes ==
    (pc = "rp_done" /\ ~ClaimRule1(arg) /\ ClaimRule2(arg))
        => ret[1] = arg.Final_Consignee_Code

\* rule 2 decided a row of the named carrier whose candidates and whose
\* matrix entry all point elsewhere
C3_Witness ==
    /\ pc = "rp_done"
    /\ ~ClaimRule1(arg) /\ ClaimRule2(arg)
    /\ carrier_is_omnitrans(arg)
    /\ arg.Extracted_Consignee_Code = "0095"
    /\ type_key(arg) \in DOMAIN Coding_Matrix
    /\ Coding_Matrix[type_key(arg)] = "ORIGIN"
    /\ ret[1] = "0K35"

\* a candidate of the named-carrier rule is present
Present(v) == v # None /\ Strip(v) # "" /\ Upper(Strip(v)) \notin {"NAN", "NONE"}

\* what rules 4-6 give: special table, then general matrix, then UNKNOWN
MatrixOutcome(r) ==
    LET key == <<r.Final_Consignor_Type, r.Final_Consignee_Type>>
    IN  IF key \in DOMAIN SPECIAL_TYPE_MAPPINGS THEN SPECIAL_TYPE_MAPPINGS[key]
        ELSE IF key \notin DOMAIN Coding_Matrix THEN "UNKNOWN"
        ELSE IF Coding_Matrix[key] = "ORIGIN" THEN r.Final_Consignor_Code
        ELSE r.Final_Consignee_Code

ClaimRule3(r) ==
    /\ r.Carrier_Name # None
    /\ Contains(Lower(r.Carrier_Name), "omnitrans")

ClaimRules123Silent(r) ==
    /\ ~ClaimRule1(r)
    /\ ~ClaimRule2(r)
    /\ ClaimRule3(r) =>
         /\ ~Present(r.Extracted_Consignee_Code)
         /\ ~Present(r.Addr_Lookup_Consignee_Code)
         /\ ~Present(r.Dest_Type_Consignee_Code)
         /\ ~Present(r.Final_Consignor_Code)

\* C5: when rules 1-3 return nothing, the result is the fixed code of the
\* special type-mapping table if the type pair is in it (before the general
\* matrix); otherwise the Final Consignor Code for ORIGIN or the Final
\* Consignee Code for DESTINATION; and "UNKNOWN" only if the pair is in
\* neither table.
C5_MatrixRules ==
    (pc = "rp_done" /\ ClaimRules123Silent(arg)) =>
        LET key == <<arg.Final_Consignor_Type, arg.Final_Consignee_Type>>
        IN  /\ key \in DOMAIN SPECIAL_TYPE_MAPPINGS
                => ret[1] = SPECIAL_TYPE_MAPPINGS[key]
            /\ (key \notin DOMAIN SPECIAL_TYPE_MAPPINGS /\ key \in DOMAIN Coding_Matrix)
                => /\ Coding_Matrix[key] = "ORIGIN"
                        => ret[1] = arg.Final_Consignor_Code
                   /\ Coding_Matrix[key] = "DESTINATION"
                        => ret[1] = arg.Final_Consignee_Code
            /\ (key \in DOMAIN SPECIAL_TYPE_MAPPINGS \/ key \in DOMAIN Coding_Matrix)
                => ret[1] # "UNKNOWN"
            /\ (key \notin DOMAIN SPECIAL_TYPE_MAPPINGS /\ key \notin DOMAIN Coding_Matrix)
                => ret[1] = "UNKNOWN"

\* a type pair listed in both tables got the special table's fixed code
C5_Witness ==
    /\ pc = "rp_done"
    /\ ClaimRules123Silent(arg)
    /\ type_key(arg) \in DOMAIN SPECIAL_TYPE_MAPPINGS
    /\ type_key(arg) \in DOMAIN Coding_Matrix
    /\ ret[1] = "THIRD PARTY"
    /\ ret[1] # arg.Final_Consignee_Code

-----------------------------------------------------------------------------
(* location_codes_finder.py: the rest of Location_Codes_Finder *)

IsAlnumCh(c) == c \in Digits \/ c \in UpperLetters

\* validate_code_in_list accepting a token only when its raw form is listed
validate_code_in_list_RawOnly(f, code) ==
    LET formatted == format_code_4(code)
    IN  IF formatted = None THEN None
        ELSE IF Upper(Strip(code)) \in f.codes_set_raw THEN formatted
        ELSE None

\* validate_code_in_list(code), on a finder f
validate_code_in_list(f, code) ==
    LET formatted == format_code_4(code)
    IN  IF formatted = None THEN None
        ELSE IF formatted \in f.codes_set_4 THEN formatted
        ELSE LET raw == Upper(Strip(code))
             IN  IF raw \in f.codes_set_raw THEN format_code_4(raw) ELSE None

\* re.findall(r"[A-Z0-9]+", text): the maximal alphanumeric runs
AlnumRuns(text) ==
    {SubSeq(text, i, j) : <<i, j>> \in
        {p \in (1..Len(text)) \X (1..Len(text)) :
            /\ p[1] <= p[2]
            /\ \A k \in p[1]..p[2] : IsAlnumCh(Ch(text, k))
            /\ p[1] = 1 \/ ~IsAlnumCh(Ch(text, p[1] - 1))
            /\ p[2] = Len(text) \/ ~IsAlnumCh(Ch(text, p[2] + 1))}}

\* number of characters of class cls at the start of text[i..], at most cap
RECURSIVE RunLength(_, _, _, _)
RunLength(text, i, cls, cap) ==
    IF cap = 0 \/ i > Len(text) \/ Ch(text, i) \notin cls THEN 0
    ELSE 1 + RunLength(text, i + 1, cls, cap - 1)

\* re.findall(r"\d{1,4}[A-Z]{0,2}|\d{1,4}", text): leftmost greedy matches,
\* each scan resuming after the previous match
RECURSIVE CodeShapes(_, _)
CodeShapes(text, i) ==
    IF i > Len(text) THEN {}
    ELSE LET nd == RunLength(text, i, Digits, 4)
             nl == RunLength(text, i + nd, UpperLetters, 2)
         IN  IF nd = 0 THEN CodeShapes(text, i + 1)
             ELSE {SubSeq(text, i, i + nd + nl - 1)} \cup CodeShapes(text, i + nd + nl)

\* the deduplicated candidate tokens of extract_from_text
TextTokens(text) == AlnumRuns(text) \cup CodeShapes(text, 1)

\* extract_from_text with the tokens sorted shortest first
extract_from_text_ShortestFirst(f, consignor_consignee) ==
    IF consignor_consignee = None THEN {None}
    ELSE LET tokens == TextTokens(Upper(consignor_consignee))
             valid  == {tok \in tokens : validate_code_in_list(f, tok) # None}
         IN  IF valid = {} THEN {None}
             ELSE {validate_code_in_list(f, tok) :
                     tok \in {t \in valid : \A u \in valid : Len(u) >= Len(t)}}

\* extract_from_text(consignor_consignee): the values it can return.  The
\* tokens are sorted by length only (a stable sort of a set), so among the
\* tokens of one length the order is the set's iteration order, which the
\* string hash seed of the process fixes: any of the longest validating
\* tokens can come first.
extract_from_text(f, consignor_consignee) ==
    IF consignor_consignee = None THEN {None}
    ELSE LET tokens == TextTokens(Upper(consignor_consignee))
             valid  == {tok \in tokens : validate_code_in_list(f, tok) # None}
         IN  IF valid = {} THEN {None}
             ELSE {validate_code_in_list(f, tok) :
                     tok \in {t \in valid : \A u \in valid : Len(u) <= Len(t)}}

\* s.split()[0] of a string that is not blank
FirstWord(s) ==
    LET t == Strip(s)
        stops == {i \in 1..Len(t) : IsSpaceCh(Ch(t, i))}
    IN  IF stops = {} THEN t ELSE SubSeq(t, 1, SetMin(stops) - 1)

\* combine_addr taking the whole street instead of its first word
combine_addr_WholeStreet(street, city, state) ==
    IF street = None \/ city = None \/ state = None THEN None
    ELSE IF Strip(street) = "" \/ Strip(city) = "" \/ Strip(state) = "" THEN None
    ELSE Upper(RemoveSpaces(Strip(street) \o FirstWord(city) \o Strip(state)))

\* combine_addr(street, city, state)
combine_addr(street, city, state) ==
    IF street = None \/ city = None \/ state = None THEN None
    ELSE IF Strip(street) = "" \/ Strip(city) = "" \/ Strip(state) = "" THEN None
    ELSE Upper(RemoveSpaces(FirstWord(street) \o FirstWord(city) \o Strip(state)))

\* extract_from_org_dest_type(org_type_code, dest_type_code)
extract_from_org_dest_type(f, org_type_code, dest_type_code) ==
    <<validate_code_in_list(f, org_type_code), validate_code_in_list(f, dest_type_code)>>

\* extract_from_address returning the stored code as it is
extract_from_address_Raw(f, combined_address) ==
    IF combined_address = None THEN None
    ELSE LET key == Strip(Upper(RemoveSpaces(combined_address)))
         IN  IF key = "" THEN None
             ELSE IF key \in DOMAIN f.address_to_code
                  THEN f.address_to_code[key]
                  ELSE None

\* extract_from_address(combined_address)
extract_from_address(f, combined_address) ==
    IF combined_address = None THEN None
    ELSE LET key == Strip(Upper(RemoveSpaces(combined_address)))
         IN  IF key = "" THEN None
             ELSE IF key \in DOMAIN f.address_to_code
                  THEN format_code_4(f.address_to_code[key])
                  ELSE None

\* dict(pairs): a later pair replaces an earlier pair with the same key
DictOfPairs(pairs) ==
    [k \in {pairs[i][1] : i \in 1..Len(pairs)} |->
        pairs[SetMax({i \in 1..Len(pairs) : pairs[i][1] = k})][2]]

\* the test of the generator in __init__: k not in [None, ""]
HasKey(pair) == pair[1] \notin {None, ""}

\* a missing column read as the text of a missing value
row_get_Nan(r, column, default) ==
    IF column \in DOMAIN r THEN r[column] ELSE "nan"

\* r.get(column, default) on a row of a table; master_table.get("Loc Code",
\* pd.Series([""] * len(master_table))) row by row
row_get(r, column, default) ==
    IF column \in DOMAIN r THEN r[column] ELSE default

\* __init__ with codes_set_4 holding only the codes listed in normalized form
NewFinder_ListedFormsOnly(master_table, codes_list) ==
    LET raw_set == {Upper(Strip(codes_list[i])) :
                      i \in {j \in 1..Len(codes_list) : codes_list[j] # None}}
        master_keys == [i \in 1..Len(master_table) |->
            combine_addr(row_get(master_table[i], "Loc_Address", ""),
                         row_get(master_table[i], "Loc_City", ""),
                         row_get(master_table[i], "Loc_ST", ""))]
        master_codes == [i \in 1..Len(master_table) |->
            LET code == row_get(master_table[i], "Loc_Code", "")
            IN  IF code = None THEN "NAN" ELSE Upper(Strip(code))]
    IN  [ codes_set_raw   |-> raw_set,
          codes_set_4     |-> {c \in raw_set : format_code_4(c) = c},
          address_to_code |->
              DictOfPairs(SelectSeq([i \in 1..Len(master_table) |->
                                        <<master_keys[i], master_codes[i]>>],
                                    HasKey)) ]

\* Location_Codes_Finder.__init__(master_table, codes_list)
NewFinder(master_table, codes_list) ==
    LET raw_set == {Upper(Strip(codes_list[i])) :
                      i \in {j \in 1..Len(codes_list) : codes_list[j] # None}}
        fmt4_set == {format_code_4(c) : c \in raw_set} \ {None}
        master_keys == [i \in 1..Len(master_table) |->
            combine_addr(row_get(master_table[i], "Loc_Address", ""),
                         row_get(master_table[i], "Loc_City", ""),
                         row_get(master_table[i], "Loc_ST", ""))]
        master_codes == [i \in 1..Len(master_table) |->
            LET code == row_get(master_table[i], "Loc_Code", "")
            IN  IF code = None THEN "NAN" ELSE Upper(Strip(code))]
    IN  [ codes_set_raw   |-> raw_set,
          codes_set_4     |-> fmt4_set,
          address_to_code |->
              DictOfPairs(SelectSeq([i \in 1..Len(master_table) |->
                                        <<master_keys[i], master_codes[i]>>],
                                    HasKey)) ]

\* a row of the master table of the finder (MY LOCATION TABLE)
LocRow(street, city, st, code) ==
    [Loc_Address |-> street, Loc_City |-> city, Loc_ST |-> st, Loc_Code |-> code]

-----------------------------------------------------------------------------
(* SpecFinder: a Location_Codes_Finder is built from a master table and a   *)
(* codes list, then one of its methods is called once                       *)

\* the reference data the finder is built from
FinderTables == {
    \* codes listed unpadded, padded, in lower case and missing; two master
    \* rows with one combined address
    [ master_table |-> << LocRow("100 Main St", "Springfield", "IL", "21"),
                          LocRow("100 Main Rd", "Springfield Park", "il", "536"),
                          LocRow("Suite 200", "Mississauga", "ON", " 0k35") >>,
      codes_list   |-> << "95", "0021", "k35 ", None, "00536" >> ],
    \* a blank code, a row without a street and a row with a blank code
    [ master_table |-> << LocRow("", "Mason", "OH", "0095"),
                          LocRow("6001 W", "Mason", "OH", ""),
                          LocRow("100 Main St", "Springfield", "IL", "11K") >>,
      codes_list   |-> << "", "11k", "0095", "ZEP" >> ],
    \* nothing listed
    [ master_table |-> << >>, codes_list |-> << >> ] }

\* tokens given to validate_code_in_list
FinderTokens ==
    { "95", "095", "0095", "10095", "21", " 21 ", "k35", "0K35", "K35X",
      "536", "0536", "11K", "011k", "ZEP", "0ZEP", "XX", "", "  ", None }

\* texts given to extract_from_text
FinderTexts ==
    { "Cintas 0095", "CINTAS0095", "ship 95 to 0095", "zep 0021 0k35",
      "11K/95", "K35 21", "ACME 7", "", None }

FinderStreets == { "100 Main St", " 100\tMain", "Suite 200", "", " ", None }

FinderCities == { "Springfield", "springfield park", " Mason", "", None }

FinderStates == { "IL", " il ", "O H", "", None }

\* combined addresses given to extract_from_address
FinderAddresses ==
    { "100SPRINGFIELDIL", "100 springfield il", "SUITEMISSISSAUGAON",
      "6001MASONOH", "1NOWHEREXX", "", " ", None }

\* one call of a method of the finder
FinderCalls ==
    [ op : {"validate_code_in_list"}, token : FinderTokens ]
    \cup [ op : {"extract_from_text"}, text : FinderTexts ]
    \cup [ op : {"combine_addr"}, street : FinderStreets, city : FinderCities,
           state : FinderStates ]
    \cup [ op : {"extract_from_address"}, combined_address : FinderAddresses ]

FinderInit ==
    /\ pc = "finder_new"
    /\ \E tables \in FinderTables, call \in FinderCalls :
          arg = [tables |-> tables, call |-> call]
    /\ ret = <<>>
    /\ finder = None
    /\ refs = Idle /\ locals = Idle /\ row = Idle

\* Location_Codes_Finder(master_table, codes_list)
FinderNew ==
    /\ pc = "finder_new"
    /\ finder' = NewFinder(arg.tables.master_table, arg.tables.codes_list)
    /\ pc' = "finder_call"
    /\ UNCHANGED <<arg, ret, refs, locals, row>>

FinderValidate ==
    /\ pc = "finder_call"
    /\ arg.call.op = "validate_code_in_list"
    /\ ret' = <<validate_code_in_list(finder, arg.call.token)>>
    /\ pc' = "finder_done"
    /\ UNCHANGED <<arg, finder, refs, locals, row>>

FinderExtractText ==
    /\ pc = "finder_call"
    /\ arg.call.op = "extract_from_text"
    /\ \E v \in extract_from_text(finder, arg.call.text) : ret' = <<v>>
    /\ pc' = "finder_done"
    /\ UNCHANGED <<arg, finder, refs, locals, row>>

FinderCombineAddr ==
    /\ pc = "finder_call"
    /\ arg.call.op = "combine_addr"
    /\ ret' = <<combine_addr(arg.call.street, arg.call.city, arg.call.state)>>
    /\ pc' = "finder_done"
    /\ UNCHANGED <<arg, finder, refs, locals, row>>

FinderExtractAddress ==
    /\ pc = "finder_call"
    /\ arg.call.op = "extract_from_address"
    /\ ret' = <<extract_from_address(finder, arg.call.combined_address)>>
    /\ pc' = "finder_done"
    /\ UNCHANGED <<arg, finder, refs, locals, row>>

FinderNext ==
    \/ FinderNew
    \/ FinderValidate
    \/ FinderExtractText
    \/ FinderCombineAddr
    \/ FinderExtractAddress

SpecFinder == FinderInit /\ [][FinderNext]_vars

-----------------------------------------------------------------------------
(* Claims about the Reference Index, the Code Extractor and the Address     *)
(* Resolver                                                                 *)

\* the allow-list in its raw form: the listed codes, trimmed and uppercased
AllowRaw(codes_list) ==
    {Upper(Strip(codes_list[i])) :
        i \in {j \in 1..Len(codes_list) : codes_list[j] # None}}

\* the allow-list in its normalized form
AllowCanonical(codes_list) ==
    {format_code_4(c) : c \in AllowRaw(codes_list)} \ {None}

\* the token's raw or its normalized form is in the allow-list
Listed(codes_list, token) ==
    \/ token # None /\ Upper(Strip(token)) \in AllowRaw(codes_list)
    \/ format_code_4(token) \in AllowCanonical(codes_list)

\* C12: validate_code_in_list returns the canonical form of a token if the
\* token's raw (trimmed, uppercased) form or its normalized form is in the
\* allow-list, and absent for every token of which neither form is in it.
C12_IsAllowed ==
    (pc = "finder_done" /\ arg.call.op = "validate_code_in_list") =>
        ret[1] = IF Listed(arg.tables.codes_list, arg.call.token)
                 THEN format_code_4(arg.call.token)
                 ELSE None

\* a token whose raw form is not listed was accepted by its normalized form
C12_Witness ==
    /\ pc = "finder_done"
    /\ arg.call.op = "validate_code_in_list"
    /\ arg.call.token = "0K35"
    /\ "0K35" \notin AllowRaw(arg.tables.codes_list)
    /\ "K35" \in AllowRaw(arg.tables.codes_list)
    /\ ret[1] = "0K35"

\* the finder has been constructed in the finder specification
FinderBuilt == pc \in {"finder_call", "finder_done"}

\* C27: the raw-form branch of validate_code_in_list never decides: the
\* normalized form of every code of codes_set_raw that has one is in
\* codes_set_4, and validate_code_in_list returns the token's normalized form
\* if that form is in codes_set_4 and absent otherwise, whatever codes_set_raw
\* holds.
C27_RawBranchNeverDecides ==
    /\ FinderBuilt =>
          \A raw \in finder.codes_set_raw :
              format_code_4(raw) = None \/ format_code_4(raw) \in finder.codes_set_4
    /\ (pc = "finder_done" /\ arg.call.op = "validate_code_in_list") =>
          ret[1] = IF format_code_4(arg.call.token) \in finder.codes_set_4
                   THEN format_code_4(arg.call.token)
                   ELSE None

\* a token listed in its raw, unpadded form only was accepted: its normalized
\* form is in codes_set_4 although it is not in codes_set_raw
C27_Witness ==
    /\ pc = "finder_done"
    /\ arg.call.op = "validate_code_in_list"
    /\ arg.call.token = "95"
    /\ "95" \in finder.codes_set_raw
    /\ "0095" \notin finder.codes_set_raw
    /\ "0095" \in finder.codes_set_4
    /\ ret[1] = "0095"

\* the candidate tokens of a text that validate
ValidCandidates(codes_list, text) ==
    {tok \in TextTokens(Upper(text)) :
        Listed(codes_list, tok) /\ format_code_4(tok) # None}

\* C13: extract_from_text returns absent for missing input or when no
\* candidate token validates; otherwise it returns the canonical code of a
\* validating candidate token whose length is maximal among the validating
\* candidate tokens.
C13_LongestTokenFirst ==
    (pc = "finder_done" /\ arg.call.op = "extract_from_text") =>
        IF arg.call.text = None THEN ret[1] = None
        ELSE LET valid == ValidCandidates(arg.tables.codes_list, arg.call.text)
             IN  IF valid = {} THEN ret[1] = None
                 ELSE \E tok \in valid :
                        /\ ret[1] = format_code_4(tok)
                        /\ \A other \in valid : Len(other) <= Len(tok)

\* the code of a three-character token was returned while a shorter token
\* with another code validates too
C13_Witness ==
    /\ pc = "finder_done"
    /\ arg.call.op = "extract_from_text"
    /\ arg.call.text = "11K/95"
    /\ {"11K", "95"} \subseteq ValidCandidates(arg.tables.codes_list, arg.call.text)
    /\ ret[1] = "011K"

\* the master rows whose combined address is the key
RowsWithKey(master_table, key) ==
    {i \in 1..Len(master_table) :
        combine_addr(master_table[i].Loc_Address, master_table[i].Loc_City,
                     master_table[i].Loc_ST) = key}

\* C17: when several master rows produce the same combined-address key, the
\* AddressIndex maps the key to the code of the earliest such row; later
\* rows do not override it.
C17_EarliestRowWins ==
    pc \in {"finder_call", "finder_done"} =>
        \A key \in DOMAIN finder.address_to_code :
            finder.address_to_code[key] =
                Upper(Strip(arg.tables.master_table[
                    SetMin(RowsWithKey(arg.tables.master_table, key))].Loc_Code))

\* a text is missing or blank
IsBlank(v) == v = None \/ Strip(v) = ""

\* the first whitespace-delimited token of a text that is not blank
FirstToken(s) ==
    LET first == SetMin({i \in 1..Len(s) : ~IsSpaceCh(Ch(s, i))})
        last  == SetMin({j \in first..Len(s) :
                            j = Len(s) \/ IsSpaceCh(Ch(s, j + 1))})
    IN  SubSeq(s, first, last)

\* C18: combine_address returns absent if any of street, city or state is
\* missing or blank; otherwise the first whitespace-delimited token of
\* street, then that of city, then the state, concatenated without
\* separator, uppercased and containing no space character.
C18_CombineAddress ==
    (pc = "finder_done" /\ arg.call.op = "combine_addr") =>
        LET street == arg.call.street
            city   == arg.call.city
            state  == arg.call.state
        IN  IF IsBlank(street) \/ IsBlank(city) \/ IsBlank(state)
            THEN ret[1] = None
            ELSE /\ ret[1] = Upper(RemoveSpaces(
                        FirstToken(street) \o FirstToken(city) \o state))
                 /\ ~Contains(ret[1], " ")

\* "100 Main St", "Springfield", "IL" gave "100SPRINGFIELDIL"
C18_Witness ==
    /\ pc = "finder_done"
    /\ arg.call.op = "combine_addr"
    /\ arg.call.street = "100 Main St"
    /\ arg.call.city = "Springfield"
    /\ arg.call.state = "IL"
    /\ ret[1] = "100SPRINGFIELDIL"

-----------------------------------------------------------------------------
(* main_logic.py: helpers of run_pipeline *)

\* _normalize_loc_code(v), after the series' fillna("")
normalize_loc_code(v) ==
    IF v = None THEN ""
    ELSE LET s == Upper(Strip(v))
         IN  IF s = "" THEN ""
             ELSE IF IsDigitStr(s) THEN Zfill(s, 4)
             ELSE s

\* clean_blank: a blank string becomes NA
clean_blank(v) == IF v = None \/ Strip(v) = "" THEN None ELSE v

IsWordCh(c) == IsAlnumCh(c) \/ c \in LowerLetters \/ c = "_"

\* re.search(r"\b" + word + r"\b", text)
HasWholeWord(text, word) ==
    \E i \in 1..(Len(text) - Len(word) + 1) :
        /\ SubSeq(text, i, i + Len(word) - 1) = word
        /\ i = 1 \/ ~IsWordCh(Ch(text, i - 1))
        /\ i + Len(word) - 1 = Len(text) \/ ~IsWordCh(Ch(text, i + Len(word)))

\* ~name.fillna("").str.upper().str.contains(r"\b(CINTAS|MAT)\b")
no_cintas_or_mat(name) ==
    LET text == Upper(IF name = None THEN "" ELSE name)
    IN  ~(HasWholeWord(text, "CINTAS") \/ HasWholeWord(text, "MAT"))

\* combined.fillna("").isin(master_combined_set)
addr_ok(combined, master_combined_set) ==
    (IF combined = None THEN "" ELSE combined) \in master_combined_set

\* the wipe mask without the test of the party's name
wipe_mask_NoNameTest(extracted, name, combined, master_combined_set) ==
    /\ extracted # None /\ Strip(extracted) # ""
    /\ ~addr_ok(combined, master_combined_set)

\* the wipe mask without the test of the party's address
wipe_mask_NoAddressTest(extracted, name, combined, master_combined_set) ==
    /\ extracted # None /\ Strip(extracted) # ""
    /\ no_cintas_or_mat(name)

\* wipe_consignor / wipe_consignee
wipe_mask(extracted, name, combined, master_combined_set) ==
    /\ extracted # None /\ Strip(extracted) # ""
    /\ no_cintas_or_mat(name)
    /\ ~addr_ok(combined, master_combined_set)

\* the chain with the type-field code tried before the text-extracted code
final_code_TypeFirst(extracted, type_code, addr_code) ==
    LET a == clean_blank(extracted)
        b == clean_blank(type_code)
        c == clean_blank(addr_code)
    IN  normalize_loc_code(IF b # None THEN b ELSE IF a # None THEN a
                           ELSE IF c # None THEN c ELSE "NON-CINTAS")

\* the chain without the type-field code
final_code_NoTypeField(extracted, type_code, addr_code) ==
    LET a == clean_blank(extracted)
        c == clean_blank(addr_code)
    IN  normalize_loc_code(IF a # None THEN a
                           ELSE IF c # None THEN c ELSE "NON-CINTAS")

\* clean_blank(extracted).fillna(clean_blank(type_code))
\*     .fillna(clean_blank(addr_code)).fillna("NON-CINTAS"), then normalized
final_code(extracted, type_code, addr_code) ==
    LET a == clean_blank(extracted)
        b == clean_blank(type_code)
        c == clean_blank(addr_code)
    IN  normalize_loc_code(IF a # None THEN a ELSE IF b # None THEN b
                           ELSE IF c # None THEN c ELSE "NON-CINTAS")

EXCEPTION_RULES == <<
    [match_column |-> "Destination_Address", contains |-> "6001 W",
     set_column |-> "Final_Consignee_Code", value |-> "0021"],
    [match_column |-> "Consignee", contains |-> "VALDEZ",
     set_column |-> "Final_Consignee_Code", value |-> "0K35"],
    [match_column |-> "Destination_Address", contains |-> "ATTN: GARDNER",
     set_column |-> "Final_Consignee_Code", value |-> "0536"],
    [match_column |-> "Consignor", contains |-> "AVERITT TERMINAL",
     set_column |-> "Final_Consignor_Code", value |-> "0004"],
    [match_column |-> "Consignor", contains |-> "COOPETRAJES",
     set_column |-> "Final_Consignor_Code", value |-> "0896"],
    [match_column |-> "Consignee", contains |-> "COOPETRAJES",
     set_column |-> "Final_Consignee_Code", value |-> "0896"],
    [match_column |-> "Consignor", contains |-> "MATHESON",
     set_column |-> "Final_Consignor_Code", value |-> "067N"],
    [match_column |-> "Consignor", contains |-> "EMPRESSA",
     set_column |-> "Final_Consignor_Code", value |-> "0972"],
    [match_column |-> "Consignor", contains |-> "EMPRESA",
     set_column |-> "Final_Consignor_Code", value |-> "0972"],
    [match_column |-> "Consignee", contains |-> "EMPRESSA",
     set_column |-> "Final_Consignee_Code", value |-> "0972"],
    [match_column |-> "Consignee", contains |-> "EMPRESA",
     set_column |-> "Final_Consignee_Code", value |-> "0972"] >>

\* accrual_sheet[col].fillna("").astype(str).str.upper().str.contains(text)
rule_matches(r, rule) ==
    LET v == r[rule.match_column]
    IN  Contains(Upper(IF v = None THEN "" ELSE v), rule.contains)

\* the loop over the rules from rule i on
RECURSIVE apply_rules_from(_, _, _)
apply_rules_from(r, rules, i) ==
    IF i > Len(rules) THEN r
    ELSE apply_rules_from(
            IF rule_matches(r, rules[i])
            THEN [r EXCEPT ![rules[i].set_column] = rules[i].value]
            ELSE r,
            rules, i + 1)

\* the loop run from the last rule to the first
RECURSIVE apply_rules_backwards(_, _, _)
apply_rules_backwards(r, rules, i) ==
    IF i < 1 THEN r
    ELSE apply_rules_backwards(
            IF rule_matches(r, rules[i])
            THEN [r EXCEPT ![rules[i].set_column] = rules[i].value]
            ELSE r,
            rules, i - 1)

\* the exceptions with the rules taken in reverse order
apply_exceptions_Reversed(r) ==
    LET after == apply_rules_backwards(r, EXCEPTION_RULES, Len(EXCEPTION_RULES))
    IN  [after EXCEPT
            !.Final_Consignor_Code = normalize_loc_code(after.Final_Consignor_Code),
            !.Final_Consignee_Code = normalize_loc_code(after.Final_Consignee_Code)]

\* the exceptions writing the overridden codes to the text-extracted
\* candidates as well
apply_exceptions_OverCandidates(r) ==
    LET after == apply_rules_from(r, EXCEPTION_RULES, 1)
        written(column) == \E i \in 1..Len(EXCEPTION_RULES) :
            EXCEPTION_RULES[i].set_column = column /\ rule_matches(r, EXCEPTION_RULES[i])
    IN  [after EXCEPT
            !.Final_Consignor_Code = normalize_loc_code(after.Final_Consignor_Code),
            !.Final_Consignee_Code = normalize_loc_code(after.Final_Consignee_Code),
            !.Extracted_Consignor_Code =
                IF written("Final_Consignor_Code")
                THEN normalize_loc_code(after.Final_Consignor_Code) ELSE @,
            !.Extracted_Consignee_Code =
                IF written("Final_Consignee_Code")
                THEN normalize_loc_code(after.Final_Consignee_Code) ELSE @]

\* for rule in EXCEPTION_RULES: ...; then both final codes normalized again
apply_exceptions(r) ==
    LET after == apply_rules_from(r, EXCEPTION_RULES, 1)
    IN  [after EXCEPT
            !.Final_Consignor_Code = normalize_loc_code(after.Final_Consignor_Code),
            !.Final_Consignee_Code = normalize_loc_code(after.Final_Consignee_Code)]

\* the "Suite" rule applied at every address
suite_override_NoAddressTest(r) ==
    LET consignor_txt == Strip(Upper(IF r.Consignor = None THEN "" ELSE r.Consignor))
        starts(prefixes) == \E p \in prefixes : StartsWith(consignor_txt, p)
        c1 == IF starts({"LNK", "AMERICAN METAL CRAFTERS", "RADIANS", "EVER READY"})
              THEN "097H" ELSE r.Addr_Lookup_Consignee_Code
        c2 == IF starts({"VECTAIR", "ZEP"}) THEN "067N" ELSE c1
    IN  IF starts({"CHEMFREE", "BERRY GLOBAL"}) THEN "0897" ELSE c2

\* the Mississauga "Suite" rule: the consignee's address-lookup code
suite_override(r) ==
    LET consignee_combo == Upper(IF r.Consignee_Combined_Address = None THEN ""
                                 ELSE r.Consignee_Combined_Address)
        consignor_txt == Strip(Upper(IF r.Consignor = None THEN "" ELSE r.Consignor))
        starts(prefixes) == \E p \in prefixes : StartsWith(consignor_txt, p)
        is_suite_mississauga == StartsWith(consignee_combo, "SUITEMISSISSAUGAON")
        c1 == IF is_suite_mississauga /\
                 starts({"LNK", "AMERICAN METAL CRAFTERS", "RADIANS", "EVER READY"})
              THEN "097H" ELSE r.Addr_Lookup_Consignee_Code
        c2 == IF is_suite_mississauga /\ starts({"VECTAIR", "ZEP"})
              THEN "067N" ELSE c1
    IN  IF is_suite_mississauga /\ starts({"CHEMFREE", "BERRY GLOBAL"})
        THEN "0897" ELSE c2

\* master_code_to_type: Loc Code -> Type Code, "NAN" types being NA
code_to_type(master_loc) ==
    DictOfPairs([i \in 1..Len(master_loc) |->
        <<Upper(master_loc[i].Loc_Code),
          IF master_loc[i].Type_Code = None THEN None
          ELSE IF Upper(master_loc[i].Type_Code) = "NAN" THEN None
          ELSE Upper(master_loc[i].Type_Code)>>])

\* code.astype(str).str.upper().map(master_code_to_type).fillna("NON-CINTAS")
final_type(code, master_code_to_type) ==
    IF Upper(code) \in DOMAIN master_code_to_type
       /\ master_code_to_type[Upper(code)] # None
    THEN master_code_to_type[Upper(code)]
    ELSE "NON-CINTAS"

\* re.fullmatch(r"-?\d+(\.\d+)?", v)
IsNumericText(v) ==
    LET body == IF StartsWith(v, "-") THEN SubSeq(v, 2, Len(v)) ELSE v
        dots == {i \in 1..Len(body) : Ch(body, i) = "."}
    IN  IF dots = {} THEN IsDigitStr(body)
        ELSE /\ Cardinality(dots) = 1
             /\ IsDigitStr(SubSeq(body, 1, SetMin(dots) - 1))
             /\ IsDigitStr(SubSeq(body, SetMin(dots) + 1, Len(body)))

\* an integer numeral without its leading zeros
RECURSIVE StripLeadingZeros(_)
StripLeadingZeros(digits) ==
    IF Len(digits) > 1 /\ Ch(digits, 1) = "0"
    THEN StripLeadingZeros(SubSeq(digits, 2, Len(digits)))
    ELSE digits

\* f"{float(v):.{decimals}f}" for a numeric text v with at most `decimals`
\* digits after the point (no rounding takes place)
FixedDecimals(v, decimals) ==
    LET sign == IF StartsWith(v, "-") THEN "-" ELSE ""
        body == IF StartsWith(v, "-") THEN SubSeq(v, 2, Len(v)) ELSE v
        dots == {i \in 1..Len(body) : Ch(body, i) = "."}
        whole == IF dots = {} THEN body ELSE SubSeq(body, 1, SetMin(dots) - 1)
        frac == IF dots = {} THEN "" ELSE SubSeq(body, SetMin(dots) + 1, Len(body))
    IN  sign \o StripLeadingZeros(whole) \o "." \o frac \o Zeros(decimals - Len(frac))

\* number of decimals of a cost center kept as text
CostCenterDecimals == 5

\* _as_text_keep_zeros(series, decimals=5), on one value
as_text_keep_zeros(v) ==
    LET s == Strip(IF v = None THEN "" ELSE v)
    IN  IF s = "" THEN ""
        ELSE IF ~IsNumericText(s) THEN s
        ELSE FixedDecimals(s, CostCenterDecimals)

\* _force_excel_text(series), on one value: the trimmed text
force_excel_text(v) == Strip(IF v = None THEN "" ELSE v)

\* ml_merge: the master table with ProfitCtr and Cost Center as text
ml_merge_of(master_loc) ==
    [i \in 1..Len(master_loc) |->
        [Loc_Code    |-> master_loc[i].Loc_Code,
         ProfitCtr   |-> Strip(IF master_loc[i].ProfitCtr = None THEN ""
                               ELSE master_loc[i].ProfitCtr),
         Cost_Center |-> force_excel_text(
                             as_text_keep_zeros(master_loc[i].Cost_Center))]]

\* the rows of ml_merge whose Loc Code is the key, in table order
matching_rows(ml_merge, key) ==
    SelectSeq(ml_merge, LAMBDA m : m.Loc_Code = key)

\* the master columns of a record that no master row matches: NA
no_match == [Loc_Code |-> None, ProfitCtr |-> None, Cost_Center |-> None]

\* a record of the merged sheet: the record r with the columns of the master
\* row m, renamed and made text; Account # EJ comes later
merged_record(r, m) ==
    [ Loc_Code         |-> m.Loc_Code,
      Profit_Center_EJ |-> Strip(IF m.ProfitCtr = None THEN "" ELSE m.ProfitCtr),
      Cost_Center_EJ   |-> force_excel_text(as_text_keep_zeros(m.Cost_Center)),
      Account_EJ       |-> NoColumn ] @@ r

\* accrual_sheet.merge(ml_merge[...], left_on="Responsible Party",
\* right_on="Loc Code", how="left"), then the renamed columns made text:
\* one output record per matching master row, one with NA when none matches
left_merge(r, ml_merge) ==
    LET found == matching_rows(ml_merge, r.Responsible_Party)
    IN  IF found = <<>> THEN <<merged_record(r, no_match)>>
        ELSE [i \in 1..Len(found) |-> merged_record(r, found[i])]

\* the blanking for "THIRD PARTY" only
blank_centers_ThirdPartyOnly(o) ==
    IF o.Responsible_Party \in {"THIRD PARTY"}
    THEN [o EXCEPT !.Profit_Center_EJ = "", !.Cost_Center_EJ = ""]
    ELSE o

\* mask_blank: Profit Center EJ and Cost Center EJ of a record blanked
blank_centers(o) ==
    LET rp_norm == Strip(Upper(IF o.Responsible_Party = None THEN ""
                               ELSE o.Responsible_Party))
    IN  IF rp_norm \in {"THIRD PARTY", "NON-CINTAS"}
        THEN [o EXCEPT !.Profit_Center_EJ = "", !.Cost_Center_EJ = ""]
        ELSE o

\* the account that looks at the Responsible Party only
gl_account_NoTag(o) ==
    IF o.Final_Consignee_Code = o.Responsible_Party THEN "621000" ELSE "621020"

\* Account # EJ of a record, as text
gl_account(o) ==
    force_excel_text(
        IF Contains(o.Profit_Center_EJ, "G59") THEN "621000"
        ELSE IF o.Final_Consignee_Code = o.Responsible_Party THEN "621000"
        ELSE "621020")

-----------------------------------------------------------------------------
(* Spec: run_pipeline on one transaction record *)

TypeRow(code, type, profit, cost) ==
    [Loc_Code |-> code, Type_Code |-> type, ProfitCtr |-> profit, Cost_Center |-> cost]

\* The reference tables of a run: the location table (MY LOCATION TABLE),
\* the Master Location Table and the list of all location codes.
RefTables == {
    \* codes given unpadded, every address distinct
    [ my_loc     |-> << LocRow("100 Main St", "Springfield", "IL", "21"),
                        LocRow("Suite 200", "Mississauga", "ON", "k35") >>,
      master_loc |-> << TypeRow("95", "US DC", "G59001", "312.1"),
                        TypeRow("0021", "MM", "P0021", "100"),
                        TypeRow("0K35", "CA DC", "P0K35", "200"),
                        TypeRow("067N", "us dc", "P067N", "300"),
                        TypeRow("0972", "LC", "P0972", "400") >>,
      all_codes  |-> << "95", "0021", "0k35", "067N", "0536", None >> ],
    \* two rows with one combined address, a row without address, a code
    \* listed twice and types left empty
    [ my_loc     |-> << LocRow("100 Main St", "Springfield", "IL", "0021"),
                        LocRow("100 Main Rd", "Springfield Park", "IL", "0536"),
                        LocRow("", "Mason", "OH", "0K35") >>,
      master_loc |-> << TypeRow("0095", "MM", "P0095", "1"),
                        TypeRow("0095", "US DC", "G59002", "2"),
                        TypeRow("0021", None, "P0021", "3"),
                        TypeRow("0536", "", "P0536", "4"),
                        TypeRow("0K35", "CA DC", "P0K35", "5") >>,
      all_codes  |-> << "0095", "0021", "0K35", "0536", "067N" >> ],
    \* no known address at all
    [ my_loc     |-> << >>,
      master_loc |-> << TypeRow("0095", "LC", "P0095", "1"),
                        TypeRow("K35", "US DC", "P0K35", "2"),
                        TypeRow("non-cintas", None, "G59NC", "-07.5"),
                        TypeRow("THIRD PARTY", None, "P3P", "N/A") >>,
      all_codes  |-> << "95", "21", "K35", "536", "NONE" >> ] }

Names == { "Cintas 0095", "CINTAS0095", "ZEP 0021 0536",
           "VALDEZ EMPRESA", "Matheson Coopetrajes 95", None }

\* consignors sharing the Mississauga "Suite" address
TenantNames == { " lnk inc", "Berry Global 0095" }

OriginAddresses == { <<"100 Main St", "Springfield", "IL">>, <<None, "Mason", "OH">> }

DestinationAddresses ==
    { <<"100 main st", "springfield", "il">>,
      <<"Suite 200", "Mississauga", "ON">>,
      <<"6001 W attn: Gardner", "Mason", "OH">>,
      <<"", "Mason", "OH">> }

\* the Org/Dest type code columns of the sheet, when it has them
TypeColumns ==
    { [cols |-> {"Org Type Code", "Dest Type Code"}, org |-> "0K35", dest |-> "536"],
      [cols |-> {"Org Type Code", "Dest Type Code"}, org |-> "none", dest |-> "XX"],
      [cols |-> {"Dest Type Code"}, org |-> None, dest |-> "536"] }

Carriers == { None, "Omnitrans Freight" }

InputRow(consignor, consignee, origin, destination, types, carrier) ==
    [ Consignor                  |-> consignor,
      Consignee                  |-> consignee,
      Origin_Address             |-> origin[1],
      Origin_City                |-> origin[2],
      Origin_State               |-> origin[3],
      Destination_Address        |-> destination[1],
      Destination_City           |-> destination[2],
      Destination_State          |-> destination[3],
      type_columns               |-> types.cols,
      Org_Type_Code              |-> types.org,
      Dest_Type_Code             |-> types.dest,
      Carrier_Name               |-> carrier,
      Consignor_Combined_Address |-> NoColumn,
      Consignee_Combined_Address |-> NoColumn,
      Extracted_Consignor_Code   |-> NoColumn,
      Extracted_Consignee_Code   |-> NoColumn,
      Org_Type_Consignor_Code    |-> NoColumn,
      Dest_Type_Consignee_Code   |-> NoColumn,
      Addr_Lookup_Consignor_Code |-> NoColumn,
      Addr_Lookup_Consignee_Code |-> NoColumn,
      Final_Consignor_Code       |-> NoColumn,
      Final_Consignee_Code       |-> NoColumn,
      Final_Consignor_Type       |-> NoColumn,
      Final_Consignee_Type       |-> NoColumn,
      Responsible_Party          |-> NoColumn ]

NoLocals ==
    [ my_loc |-> None, master_loc |-> None, all_codes |-> None,
      master_combined_set |-> None,
      wipe_consignor |-> None, wipe_consignee |-> None,
      master_code_to_type |-> None,
      accrual_sheet |-> << >> ]

\* run_pipeline is called with the caller's sheet (arg.accrual_sheet) and the
\* caller's reference tables (refs); row is the record of the copy of the
\* sheet that the pipeline works on
Init ==
    /\ pc = "standardize"
    /\ ret = Idle
    /\ refs \in RefTables
    /\ finder = None
    /\ locals = NoLocals
    /\ \E consignor \in Names \cup TenantNames, consignee \in Names,
          origin \in OriginAddresses, destination \in DestinationAddresses,
          types \in TypeColumns, carrier \in Carriers :
            row = InputRow(consignor, consignee, origin, destination, types, carrier)
    /\ arg = [accrual_sheet |-> row]

\* df[c].fillna("").astype(str)
AsText(v) == IF v = None THEN "" ELSE v

\* standardize_input_columns, for a sheet given under its canonical column
\* names: the eight canonical columns become text
Standardize ==
    /\ pc = "standardize"
    /\ row' = [row EXCEPT
                 !.Consignor = AsText(@), !.Consignee = AsText(@),
                 !.Origin_Address = AsText(@), !.Origin_City = AsText(@),
                 !.Origin_State = AsText(@),
                 !.Destination_Address = AsText(@), !.Destination_City = AsText(@),
                 !.Destination_State = AsText(@)]
    /\ pc' = "normalize_refs"
    /\ UNCHANGED <<arg, ret, refs, finder, locals>>

\* the code columns normalized in the caller's tables, without the copies
NormalizeRefs_InPlace ==
    /\ pc = "normalize_refs"
    /\ locals' = [locals EXCEPT
         !.my_loc = [i \in 1..Len(refs.my_loc) |->
             [refs.my_loc[i] EXCEPT !.Loc_Code = normalize_loc_code(@)]],
         !.master_loc = [i \in 1..Len(refs.master_loc) |->
             [refs.master_loc[i] EXCEPT !.Loc_Code = normalize_loc_code(@)]],
         !.all_codes = [i \in 1..Len(refs.all_codes) |->
             normalize_loc_code(refs.all_codes[i])]]
    /\ refs' = [my_loc |-> locals'.my_loc, master_loc |-> locals'.master_loc,
                all_codes |-> locals'.all_codes]
    /\ pc' = "init_services"
    /\ UNCHANGED <<arg, ret, finder, row>>

\* copies of the reference tables with their code columns normalized
NormalizeRefs ==
    /\ pc = "normalize_refs"
    /\ locals' = [locals EXCEPT
         !.my_loc = [i \in 1..Len(refs.my_loc) |->
             [refs.my_loc[i] EXCEPT !.Loc_Code = normalize_loc_code(@)]],
         !.master_loc = [i \in 1..Len(refs.master_loc) |->
             [refs.master_loc[i] EXCEPT !.Loc_Code = normalize_loc_code(@)]],
         !.all_codes = [i \in 1..Len(refs.all_codes) |->
             normalize_loc_code(refs.all_codes[i])]]
    /\ pc' = "init_services"
    /\ UNCHANGED <<arg, ret, refs, finder, row>>

\* location_finder = Location_Codes_Finder(my_loc, all_codes[codes_col])
InitServices ==
    /\ pc = "init_services"
    /\ finder' = NewFinder(locals.my_loc, locals.all_codes)
    /\ pc' = "master_set"
    /\ UNCHANGED <<arg, ret, refs, locals, row>>

\* set(my_loc.apply(lambda r: combine_addr(r.get(...), ...), axis=1).dropna())
master_combined_set_of(my_loc) ==
    {combine_addr(row_get(my_loc[i], "Loc_Address", ""),
                  row_get(my_loc[i], "Loc_City", ""),
                  row_get(my_loc[i], "Loc_ST", "")) : i \in 1..Len(my_loc)} \ {None}

\* master_combined_set: the combined addresses of the location table
MasterSet ==
    /\ pc = "master_set"
    /\ locals' = [locals EXCEPT !.master_combined_set =
                     master_combined_set_of(locals.my_loc)]
    /\ pc' = "combine"
    /\ UNCHANGED <<arg, ret, refs, finder, row>>

\* the two combined addresses of the record
CombineAddresses ==
    /\ pc = "combine"
    /\ row' = [row EXCEPT
         !.Consignor_Combined_Address =
             combine_addr(row.Origin_Address, row.Origin_City, row.Origin_State),
         !.Consignee_Combined_Address =
             combine_addr(row.Destination_Address, row.Destination_City,
                          row.Destination_State)]
    /\ pc' = "extract_text"
    /\ UNCHANGED <<arg, ret, refs, finder, locals>>

\* the codes extracted from the two names, normalized
ExtractText ==
    /\ pc = "extract_text"
    /\ \E a \in extract_from_text(finder, row.Consignor),
          b \in extract_from_text(finder, row.Consignee) :
            row' = [row EXCEPT
                      !.Extracted_Consignor_Code = normalize_loc_code(a),
                      !.Extracted_Consignee_Code = normalize_loc_code(b)]
    /\ pc' = "address_check"
    /\ UNCHANGED <<arg, ret, refs, finder, locals>>

\* the address checker rule: the masks, then the wipe
AddressCheck ==
    /\ pc = "address_check"
    /\ LET wipe_consignor ==
               wipe_mask(row.Extracted_Consignor_Code, row.Consignor,
                         row.Consignor_Combined_Address, locals.master_combined_set)
           wipe_consignee ==
               wipe_mask(row.Extracted_Consignee_Code, row.Consignee,
                         row.Consignee_Combined_Address, locals.master_combined_set)
       IN  /\ locals' = [locals EXCEPT !.wipe_consignor = wipe_consignor,
                                       !.wipe_consignee = wipe_consignee]
           /\ row' = [row EXCEPT
                !.Extracted_Consignor_Code = IF wipe_consignor THEN "" ELSE @,
                !.Extracted_Consignee_Code = IF wipe_consignee THEN "" ELSE @]
    /\ pc' = "org_dest_type"
    /\ UNCHANGED <<arg, ret, refs, finder>>

\* the codes of the Org/Dest type columns, when the sheet has both
OrgDestType ==
    /\ pc = "org_dest_type"
    /\ LET tmp == IF {"Org Type Code", "Dest Type Code"} \subseteq row.type_columns
                  THEN extract_from_org_dest_type(finder, row.Org_Type_Code,
                                                  row.Dest_Type_Code)
                  ELSE <<"", "">>
       IN  row' = [row EXCEPT
                !.Org_Type_Consignor_Code = normalize_loc_code(tmp[1]),
                !.Dest_Type_Consignee_Code = normalize_loc_code(tmp[2])]
    /\ pc' = "addr_lookup"
    /\ UNCHANGED <<arg, ret, refs, finder, locals>>

\* the codes looked up by combined address, normalized
AddrLookup ==
    /\ pc = "addr_lookup"
    /\ row' = [row EXCEPT
         !.Addr_Lookup_Consignor_Code = normalize_loc_code(
             extract_from_address(finder, row.Consignor_Combined_Address)),
         !.Addr_Lookup_Consignee_Code = normalize_loc_code(
             extract_from_address(finder, row.Consignee_Combined_Address))]
    /\ pc' = "suite_override"
    /\ UNCHANGED <<arg, ret, refs, finder, locals>>

\* the Mississauga "Suite" consignee rule
SuiteOverride ==
    /\ pc = "suite_override"
    /\ row' = [row EXCEPT !.Addr_Lookup_Consignee_Code = suite_override(row)]
    /\ pc' = "final_codes"
    /\ UNCHANGED <<arg, ret, refs, finder, locals>>

\* the final location codes
FinalCodes ==
    /\ pc = "final_codes"
    /\ row' = [row EXCEPT
         !.Final_Consignor_Code =
             final_code(row.Extracted_Consignor_Code, row.Org_Type_Consignor_Code,
                        row.Addr_Lookup_Consignor_Code),
         !.Final_Consignee_Code =
             final_code(row.Extracted_Consignee_Code, row.Dest_Type_Consignee_Code,
                        row.Addr_Lookup_Consignee_Code)]
    /\ pc' = "exceptions"
    /\ UNCHANGED <<arg, ret, refs, finder, locals>>

\* the exception rules
Exceptions ==
    /\ pc = "exceptions"
    /\ row' = apply_exceptions(row)
    /\ pc' = "type_mapping"
    /\ UNCHANGED <<arg, ret, refs, finder, locals>>

\* the type code mapping
TypeMapping ==
    /\ pc = "type_mapping"
    /\ LET master_loc == [i \in 1..Len(locals.master_loc) |->
               [locals.master_loc[i] EXCEPT !.Loc_Code = normalize_loc_code(@)]]
           master_code_to_type == code_to_type(master_loc)
       IN  /\ locals' = [locals EXCEPT !.master_loc = master_loc,
                                       !.master_code_to_type = master_code_to_type]
           /\ row' = [row EXCEPT
                !.Final_Consignor_Type =
                    final_type(row.Final_Consignor_Code, master_code_to_type),
                !.Final_Consignee_Type =
                    final_type(row.Final_Consignee_Code, master_code_to_type)]
    /\ pc' = "responsible_party"
    /\ UNCHANGED <<arg, ret, refs, finder>>

\* accrual_sheet.apply(mapper.determine_profit_center, axis=1)
ResponsibleParty ==
    /\ pc = "responsible_party"
    /\ row' = [row EXCEPT !.Responsible_Party = determine_profit_center(row)]
    /\ pc' = "profit_center"
    /\ UNCHANGED <<arg, ret, refs, finder, locals>>

\* the profit/cost center lookup: accrual_sheet becomes the merged sheet
ProfitCenter ==
    /\ pc = "profit_center"
    /\ locals' = [locals EXCEPT !.accrual_sheet =
                     left_merge(row, ml_merge_of(locals.master_loc))]
    /\ pc' = "blank_centers"
    /\ UNCHANGED <<arg, ret, refs, finder, row>>

\* blank if THIRD PARTY / NON-CINTAS
BlankCenters ==
    /\ pc = "blank_centers"
    /\ LET sheet == locals.accrual_sheet
       IN  locals' = [locals EXCEPT !.accrual_sheet =
                        [i \in 1..Len(sheet) |-> blank_centers(sheet[i])]]
    /\ pc' = "gl_account"
    /\ UNCHANGED <<arg, ret, refs, finder, row>>

\* the GL account logic
GLAccount ==
    /\ pc = "gl_account"
    /\ LET sheet == locals.accrual_sheet
       IN  locals' = [locals EXCEPT !.accrual_sheet =
                        [i \in 1..Len(sheet) |->
                            [sheet[i] EXCEPT !.Account_EJ = gl_account(sheet[i])]]]
    /\ pc' = "automation_accuracy"
    /\ UNCHANGED <<arg, ret, refs, finder, row>>

Next ==
    \/ Standardize
    \/ NormalizeRefs
    \/ InitServices
    \/ MasterSet
    \/ CombineAddresses
    \/ ExtractText
    \/ AddressCheck
    \/ OrgDestType
    \/ AddrLookup
    \/ SuiteOverride
    \/ FinalCodes
    \/ Exceptions
    \/ TypeMapping
    \/ ResponsibleParty
    \/ ProfitCenter
    \/ BlankCenters
    \/ GLAccount

Spec == Init /\ [][Next]_vars

-----------------------------------------------------------------------------
(* Claims about the Final Code Resolver *)

\* the steps of run_pipeline up to and including the exception rules are done
ExceptionsDone ==
    pc \notin {"standardize", "normalize_refs", "init_services", "master_set",
               "combine", "extract_text", "address_check", "org_dest_type",
               "addr_lookup", "suite_override", "final_codes", "exceptions"}

\* the exception rules that match the record and write the given column
MatchingRules(r, column) ==
    {i \in 1..Len(EXCEPTION_RULES) :
        /\ EXCEPTION_RULES[i].set_column = column
        /\ Contains(Upper(r[EXCEPTION_RULES[i].match_column]),
                    EXCEPTION_RULES[i].contains)}

\* first present among A, B and C, else the sentinel; "" is an absent code
Chain(a, b, c) ==
    IF a # "" THEN a ELSE IF b # "" THEN b ELSE IF c # "" THEN c ELSE "NON-CINTAS"

ConsignorChain(r) ==
    Chain(r.Extracted_Consignor_Code, r.Org_Type_Consignor_Code,
          r.Addr_Lookup_Consignor_Code)

ConsigneeChain(r) ==
    Chain(r.Extracted_Consignee_Code, r.Dest_Type_Consignee_Code,
          r.Addr_Lookup_Consignee_Code)

AllDistinct(a, b, c) == a # "" /\ b # "" /\ c # "" /\ a # b /\ a # c /\ b # c

WordsOf(text) ==
    {SubSeq(text, i, j) : <<i, j>> \in
        {p \in (1..Len(text)) \X (1..Len(text)) :
            /\ p[1] <= p[2]
            /\ \A k \in p[1]..p[2] : IsWordCh(Ch(text, k))
            /\ p[1] = 1 \/ ~IsWordCh(Ch(text, p[1] - 1))
            /\ p[2] = Len(text) \/ ~IsWordCh(Ch(text, p[2] + 1))}}

\* the combined-address keys of the master location table
MasterKeys ==
    {combine_addr(refs.my_loc[i].Loc_Address, refs.my_loc[i].Loc_City,
                  refs.my_loc[i].Loc_ST) : i \in 1..Len(refs.my_loc)} \ {None}

\* the condition of the wipe as the claim states it
ClaimWipe(extracted, name, combined) ==
    /\ extracted # ""
    /\ WordsOf(Upper(name)) \cap {"CINTAS", "MAT"} = {}
    /\ combined = None \/ combined \notin MasterKeys

\* C6: for each party independently, the text-extracted code A is discarded
\* if and only if A is present, the party's name (uppercased) does not
\* contain CINTAS or MAT as a whole word, and the party's combined address is
\* not a master combined-address key (an absent address is not one); the
\* wipe changes nothing else of the record.
C6_WipeOnlyA ==
    [][pc = "address_check" =>
        LET wc == ClaimWipe(row.Extracted_Consignor_Code, row.Consignor,
                            row.Consignor_Combined_Address)
            we == ClaimWipe(row.Extracted_Consignee_Code, row.Consignee,
                            row.Consignee_Combined_Address)
        IN  /\ locals'.wipe_consignor = wc
            /\ locals'.wipe_consignee = we
            /\ row'.Extracted_Consignor_Code =
                 IF wc THEN "" ELSE row.Extracted_Consignor_Code
            /\ row'.Extracted_Consignee_Code =
                 IF we THEN "" ELSE row.Extracted_Consignee_Code
            /\ \A col \in DOMAIN row \ {"Extracted_Consignor_Code",
                                        "Extracted_Consignee_Code"} :
                 row'[col] = row[col]]_vars

\* the consignee's code was wiped at an unknown address while the consignor,
\* whose name has CINTAS as a word, kept its code at an absent address
C6_Witness ==
    /\ pc = "org_dest_type"
    /\ locals.wipe_consignee = TRUE
    /\ row.Extracted_Consignee_Code = ""
    /\ row.Consignee = "CINTAS0095"
    /\ row.Consignee_Combined_Address = "6001MASONOH"
    /\ locals.wipe_consignor = FALSE
    /\ row.Consignor = "Cintas 0095"
    /\ row.Consignor_Combined_Address = None
    /\ row.Extracted_Consignor_Code = "0095"

C8_LastRuleWins ==
    ExceptionsDone =>
        LET hitsOr == MatchingRules(row, "Final_Consignor_Code")
            hitsEe == MatchingRules(row, "Final_Consignee_Code")
        IN  /\ row.Final_Consignor_Code =
                 IF hitsOr = {} THEN ConsignorChain(row)
                 ELSE EXCEPTION_RULES[SetMax(hitsOr)].value
            /\ row.Final_Consignee_Code =
                 IF hitsEe = {} THEN ConsigneeChain(row)
                 ELSE EXCEPTION_RULES[SetMax(hitsEe)].value

\* four rules with different codes matched the consignee and two the
\* consignor, who both had candidates of their own
C8_Witness ==
    /\ ExceptionsDone
    /\ Cardinality(MatchingRules(row, "Final_Consignee_Code")) = 4
    /\ row.Final_Consignee_Code = "0972"
    /\ row.Dest_Type_Consignee_Code = "0536"
    /\ Cardinality(MatchingRules(row, "Final_Consignor_Code")) = 2
    /\ row.Final_Consignor_Code = "067N"
    /\ row.Extracted_Consignor_Code = "0095"

-----------------------------------------------------------------------------
(* Claims about the final type, the Suite override and the Profit/Cost      *)
(* Center & GL Populator                                                    *)

\* the type mapping step of run_pipeline is done
TypeMappingDone ==
    pc \in {"responsible_party", "profit_center", "blank_centers", "gl_account",
            "automation_accuracy"}

\* the non-blank types, uppercased, of the type-directory entries whose
\* location code has the canonical form of the code
DirectoryTypes(code) ==
    {Upper(refs.master_loc[i].Type_Code) :
        i \in {j \in 1..Len(refs.master_loc) :
                 /\ format_code_4(refs.master_loc[j].Loc_Code) = format_code_4(code)
                 /\ refs.master_loc[j].Type_Code # None
                 /\ Strip(refs.master_loc[j].Type_Code) # ""}}

TypeOfCanonicalCode(code, type) ==
    IF DirectoryTypes(code) = {} THEN type = "NON-CINTAS"
    ELSE type \in DirectoryTypes(code)

\* C19: for every party, the final type is the type of the type-directory
\* entry whose location code has the same canonical form as the final code
\* (after the literal overrides) when that entry has a non-blank type, and
\* "NON-CINTAS" when there is no such entry or its type is missing or blank.
C19_TypeOfCanonicalCode ==
    TypeMappingDone =>
        /\ TypeOfCanonicalCode(row.Final_Consignor_Code, row.Final_Consignor_Type)
        /\ TypeOfCanonicalCode(row.Final_Consignee_Code, row.Final_Consignee_Type)

\* the steps of run_pipeline up to and including the Suite rule are done
SuiteDone ==
    pc \notin {"standardize", "normalize_refs", "init_services", "master_set",
               "combine", "extract_text", "address_check", "org_dest_type",
               "addr_lookup", "suite_override"}

\* the known partners of the shared address and their fixed codes
SuiteTenants == <<
    [prefixes |-> {"LNK", "AMERICAN METAL CRAFTERS", "RADIANS", "EVER READY"},
     code |-> "097H"],
    [prefixes |-> {"VECTAIR", "ZEP"}, code |-> "067N"],
    [prefixes |-> {"CHEMFREE", "BERRY GLOBAL"}, code |-> "0897"] >>

\* the fixed codes the override forces on the record
ForcedCodes(r) ==
    {SuiteTenants[i].code :
        i \in {j \in 1..Len(SuiteTenants) :
                 /\ r.Consignee_Combined_Address # None
                 /\ StartsWith(r.Consignee_Combined_Address, "SUITEMISSISSAUGAON")
                 /\ \E p \in SuiteTenants[j].prefixes :
                        StartsWith(Strip(Upper(r.Consignor)), p)}}

\* C20, after the steps: at most one fixed code applies; when one does, it
\* is the consignee's address-lookup code C, and the Final Consignee Code is
\* the code of the last matching literal override if any, else A if present,
\* else B if present, else the forced code.
SuiteForcesC ==
    /\ (SuiteDone /\ ForcedCodes(row) # {}) =>
          /\ Cardinality(ForcedCodes(row)) = 1
          /\ row.Addr_Lookup_Consignee_Code \in ForcedCodes(row)
    /\ (ExceptionsDone /\ ForcedCodes(row) # {}) =>
          LET hits == MatchingRules(row, "Final_Consignee_Code")
              forced == CHOOSE c \in ForcedCodes(row) : TRUE
          IN  /\ row.Final_Consignee_Code =
                   IF hits # {} THEN EXCEPTION_RULES[SetMax(hits)].value
                   ELSE Chain(row.Extracted_Consignee_Code,
                              row.Dest_Type_Consignee_Code, forced)
              /\ (/\ hits = {}
                  /\ row.Extracted_Consignee_Code = ""
                  /\ row.Dest_Type_Consignee_Code = "")
                 => row.Final_Consignee_Code = forced

\* C20, the step itself: it changes nothing but the consignee's
\* address-lookup code, and nothing at all when no fixed code applies
SuiteChangesOnlyC ==
    pc = "suite_override" =>
        /\ \A col \in DOMAIN row \ {"Addr_Lookup_Consignee_Code"} :
              row'[col] = row[col]
        /\ ForcedCodes(row) = {} => row' = row
        /\ locals' = locals

Sheet == locals.accrual_sheet

\* C16: the output contains exactly one record per input record, even when
\* the location directory has several rows with the Responsible Party's
\* code; the first matching directory row supplies the profit and cost
\* center.
C16_OneRecordPerInput ==
    pc = "blank_centers" =>
        LET found == {i \in 1..Len(locals.master_loc) :
                        locals.master_loc[i].Loc_Code = row.Responsible_Party}
        IN  /\ Len(Sheet) = 1
            /\ found # {} =>
                 /\ Sheet[1].Profit_Center_EJ =
                       Strip(locals.master_loc[SetMin(found)].ProfitCtr)
                 /\ Sheet[1].Cost_Center_EJ =
                       as_text_keep_zeros(locals.master_loc[SetMin(found)].Cost_Center)

\* C15: for every record whose Responsible Party (trimmed, uppercased) is
\* "THIRD PARTY" or "NON-CINTAS", the derived profit center and the derived
\* cost center are both blank in the output, whatever the location
\* directory contains for that code.
C15_SentinelBlanked ==
    pc \in {"gl_account", "automation_accuracy"} =>
        \A i \in 1..Len(Sheet) :
            Strip(Upper(Sheet[i].Responsible_Party)) \in {"THIRD PARTY", "NON-CINTAS"}
                => /\ Sheet[i].Profit_Center_EJ = ""
                   /\ Sheet[i].Cost_Center_EJ = ""

\* the directory has a row, with a profit and a cost center, for the
\* sentinel "NON-CINTAS" that is the record's Responsible Party
C15_Witness ==
    /\ pc = "automation_accuracy"
    /\ Sheet[1].Responsible_Party = "NON-CINTAS"
    /\ Sheet[1].Loc_Code = "NON-CINTAS"
    /\ \E j \in 1..Len(locals.master_loc) :
          /\ locals.master_loc[j].Loc_Code = "NON-CINTAS"
          /\ locals.master_loc[j].ProfitCtr = "G59NC"
    /\ Sheet[1].Profit_Center_EJ = ""
    /\ Sheet[1].Cost_Center_EJ = ""

\* C14: for every record the account is 621000 if the derived profit center
\* contains "G59" (even when the Final Consignee Code differs from the
\* Responsible Party); otherwise 621000 if the Final Consignee Code equals
\* the Responsible Party; otherwise 621020.  No other value is produced.
C14_GLAccount ==
    pc = "automation_accuracy" =>
        \A i \in 1..Len(Sheet) :
            /\ Sheet[i].Account_EJ \in {"621000", "621020"}
            /\ Sheet[i].Account_EJ = "621000" <=>
                 \/ Contains(Sheet[i].Profit_Center_EJ, "G59")
                 \/ Sheet[i].Final_Consignee_Code = Sheet[i].Responsible_Party

\* a record whose profit center has the tag got 621000 although its Final
\* Consignee Code is not its Responsible Party
C14_Witness ==
    /\ pc = "automation_accuracy"
    /\ Contains(Sheet[1].Profit_Center_EJ, "G59")
    /\ Sheet[1].Final_Consignee_Code # Sheet[1].Responsible_Party
    /\ Sheet[1].Account_EJ = "621000"

-----------------------------------------------------------------------------
(* Claims about the pipeline as a whole *)

\* the code is not absent and both normalizers leave it as it is
IsCanonical(code) ==
    /\ code \notin {None, ""}
    /\ format_code_4(code) = code
    /\ normalize_loc_code(code) = code

\* C21: once the exception rules have been applied, and up to the last step
\* of the pipeline, the Final Consignor Code and the Final Consignee Code of
\* the record (and of every record of the merged sheet) are fixed points of
\* the Code Normalizer, codes written by literal overrides and the sentinel
\* "NON-CINTAS" included.
C21_FinalCodesCanonical ==
    ExceptionsDone =>
        /\ IsCanonical(row.Final_Consignor_Code)
        /\ IsCanonical(row.Final_Consignee_Code)
        /\ \A i \in 1..Len(Sheet) :
              /\ IsCanonical(Sheet[i].Final_Consignor_Code)
              /\ IsCanonical(Sheet[i].Final_Consignee_Code)

\* the last step is done; a literal override wrote the consignor's code and
\* the consignee's code comes from the address index, where it is stored
\* unpadded
C21_Witness ==
    /\ pc = "automation_accuracy"
    /\ MatchingRules(row, "Final_Consignor_Code") # {}
    /\ row.Final_Consignor_Code = "067N"
    /\ MatchingRules(row, "Final_Consignee_Code") = {}
    /\ row.Extracted_Consignee_Code \in {None, ""}
    /\ row.Dest_Type_Consignee_Code \in {None, ""}
    /\ row.Final_Consignee_Code = "0K35"
    /\ row.Consignee_Combined_Address \in DOMAIN finder.address_to_code
    /\ finder.address_to_code[row.Consignee_Combined_Address] = "K35"

\* the finder of the run has been constructed
ServicesReady == pc \notin {"standardize", "normalize_refs", "init_services"}

\* C25: reference data is read-only during a run: once the finder is built,
\* no step of the pipeline (the calls of combine_addr, extract_from_text,
\* extract_from_org_dest_type with validate_code_in_list, and
\* extract_from_address included) changes codes_set_raw, codes_set_4 or
\* address_to_code, and no step changes the caller's sheet or the caller's
\* three reference tables.
C25_ReferenceReadOnly ==
    [][ /\ ServicesReady =>
              /\ finder'.codes_set_raw = finder.codes_set_raw
              /\ finder'.codes_set_4 = finder.codes_set_4
              /\ finder'.address_to_code = finder.address_to_code
        /\ refs' = refs
        /\ arg' = arg ]_vars

\* the run is over: the pipeline normalized codes in its copies of the
\* reference tables, validated tokens and looked an address up, and the
\* record it worked on differs from the caller's
C25_Witness ==
    /\ pc = "automation_accuracy"
    /\ locals.my_loc # refs.my_loc
    /\ locals.master_loc # refs.master_loc
    /\ locals.all_codes # refs.all_codes
    /\ row # arg.accrual_sheet
    /\ row.Extracted_Consignor_Code = "0095"
    /\ row.Dest_Type_Consignee_Code = "0536"
    /\ row.Addr_Lookup_Consignor_Code = "0021"

\* the address check and the address lookup of the run are done
LookupDone ==
    pc \notin {"standardize", "normalize_refs", "init_services", "master_set",
               "combine", "extract_text", "address_check", "org_dest_type",
               "addr_lookup"}

\* the party's text-extracted code was wiped only if the lookup of the
\* party's combined address finds nothing, and the lookup finds a code only
\* if the party's text-extracted code was not wiped
WipeExcludesLookup(wiped, combined) ==
    /\ wiped => extract_from_address(finder, combined) = None
    /\ extract_from_address(finder, combined) # None => ~wiped

\* C28: the master combined-address keys used by the wipe are the keys of
\* the address index, and per party the wipe and a successful address lookup
\* exclude each other: a wiped party's lookup result is absent (so is the
\* Addr_Lookup column as the lookup step leaves it), and a party whose lookup
\* returns a code keeps its text-extracted code.
C28_WipeExcludesLookup ==
    /\ pc \notin {"standardize", "normalize_refs", "init_services", "master_set"}
          => locals.master_combined_set = DOMAIN finder.address_to_code
    /\ LookupDone =>
          /\ WipeExcludesLookup(locals.wipe_consignor, row.Consignor_Combined_Address)
          /\ WipeExcludesLookup(locals.wipe_consignee, row.Consignee_Combined_Address)
    /\ pc = "suite_override" =>
          /\ locals.wipe_consignor => row.Addr_Lookup_Consignor_Code = ""
          /\ locals.wipe_consignee => row.Addr_Lookup_Consignee_Code = ""

\* the consignee's text-extracted code was wiped and its lookup found
\* nothing, while the consignor's lookup returned a code and its
\* text-extracted code was kept although its name has no CINTAS or MAT
C28_Witness ==
    /\ LookupDone
    /\ locals.wipe_consignee
    /\ row.Extracted_Consignee_Code = ""
    /\ extract_from_address(finder, row.Consignee_Combined_Address) = None
    /\ ~locals.wipe_consignor
    /\ no_cintas_or_mat(row.Consignor)
    /\ row.Extracted_Consignor_Code \notin {None, ""}
    /\ extract_from_address(finder, row.Consignor_Combined_Address) = "0021"
    /\ locals.master_combined_set # {}

\* the Responsible Party of the record has been determined
ResponsiblePartyDone ==
    pc \in {"profit_center", "blank_centers", "gl_account", "automation_accuracy"}

\* C29: every pipeline record whose carrier name contains "omnitrans" and
\* that is not decided by rules 1 or 2 gets its Responsible Party from
\* rule 3: the rule finds a candidate (at least the Final Consignor Code), so
\* the special type-mapping table and the general matrix are not consulted.
C29_CarrierRuleDecides ==
    (/\ ResponsiblePartyDone
     /\ carrier_is_omnitrans(row)
     /\ rule_override(row) = None
     /\ rule_special_codes(row) = None)
        => /\ rule_omnitrans(row) # None
           /\ row.Responsible_Party = rule_omnitrans(row)

\* the step that applies the exception rules changes no column of the record
\* other than the two final codes
ExceptionsChangeOnlyFinalCodes ==
    pc = "exceptions" =>
        \A column \in DOMAIN row \ {"Final_Consignor_Code", "Final_Consignee_Code"} :
            row'[column] = row[column]

\* a record decided by the named-carrier rule has the first present of the
\* consignee's candidates A, C, B and the Final Consignor Code as its
\* Responsible Party
CarrierRuleUsesCandidates ==
    (/\ ResponsiblePartyDone
     /\ carrier_is_omnitrans(row)
     /\ rule_override(row) = None
     /\ rule_special_codes(row) = None
     /\ rule_omnitrans(row) # None)
        => row.Responsible_Party =
              first_nonblank(<<row.Extracted_Consignee_Code,
                               row.Addr_Lookup_Consignee_Code,
                               row.Dest_Type_Consignee_Code,
                               row.Final_Consignor_Code>>)

\* C30: the literal overrides change only the final-code fields: the
\* exception step leaves every candidate field (Extracted, Org/Dest Type and
\* Addr_Lookup codes of both parties) unchanged, and a record decided by the
\* named-carrier rule takes its Responsible Party from the consignee's
\* candidates as they were before the overrides, not from the overridden
\* Final Consignee Code.
C30_OverridesLeaveCandidates ==
    [][ExceptionsChangeOnlyFinalCodes]_vars /\ []CarrierRuleUsesCandidates

\* a literal override wrote the Final Consignee Code, the named-carrier rule
\* decided, and the Responsible Party is the consignee's text-extracted code,
\* which differs from the overridden code
C30_Witness ==
    /\ ResponsiblePartyDone
    /\ carrier_is_omnitrans(row)
    /\ rule_override(row) = None
    /\ rule_special_codes(row) = None
    /\ MatchingRules(row, "Final_Consignee_Code") # {}
    /\ row.Final_Consignee_Code = "0896"
    /\ row.Extracted_Consignee_Code = "0095"
    /\ row.Responsible_Party = "0095"

-----------------------------------------------------------------------------
(* SpecTwice: the pipeline's code resolution of one party of one record is  *)
(* run twice, each run in a process of its own, on the same record and the  *)
(* same reference tables                                                    *)

\* my_loc with its Loc Code column normalized, if it has that column
normalized_my_loc(my_loc) ==
    [i \in 1..Len(my_loc) |->
        IF "Loc_Code" \in DOMAIN my_loc[i]
        THEN [my_loc[i] EXCEPT !.Loc_Code = normalize_loc_code(@)]
        ELSE my_loc[i]]

\* the finder a run builds from its normalized copies of the location table
\* and of the codes list
run_finder(tables) ==
    NewFinder(normalized_my_loc(tables.my_loc),
              [i \in 1..Len(tables.all_codes) |->
                  normalize_loc_code(tables.all_codes[i])])

\* the master combined-address set of a run
run_master_set(tables) == master_combined_set_of(normalized_my_loc(tables.my_loc))

\* the derived code columns of one party, text_code being the value that
\* extract_from_text returned for the party's name in this run
party_codes(tables, party, text_code) ==
    LET f         == run_finder(tables)
        combined  == combine_addr(party.address[1], party.address[2], party.address[3])
        extracted == normalize_loc_code(text_code)
        a == IF wipe_mask(extracted, AsText(party.name), combined,
                          run_master_set(tables))
             THEN "" ELSE extracted
        b == normalize_loc_code(validate_code_in_list(f, party.type_code))
        c == normalize_loc_code(extract_from_address(f, combined))
    IN  [ Combined_Address |-> combined, Extracted_Code |-> a, Type_Code |-> b,
          Addr_Lookup_Code |-> c, Final_Code |-> final_code(a, b, c) ]

\* the type-field codes of the party
TwiceTypeCodes == { None, "536" }

\* reference tables whose location table lacks a column: the state, the
\* street, the city and the location code
LackingTables ==
    { [ my_loc     |-> << [Loc_Address |-> "100 Main St", Loc_City |-> "Springfield",
                           Loc_Code |-> "21"] >>,
        master_loc |-> << >>, all_codes |-> << "0021", "0536" >> ],
      [ my_loc     |-> << [Loc_City |-> "Springfield", Loc_ST |-> "IL",
                           Loc_Code |-> "21"] >>,
        master_loc |-> << >>, all_codes |-> << "0021", "0536" >> ],
      [ my_loc     |-> << [Loc_Address |-> "100 Main St", Loc_ST |-> "IL",
                           Loc_Code |-> "21"] >>,
        master_loc |-> << >>, all_codes |-> << "0021", "0536" >> ],
      [ my_loc     |-> << [Loc_Address |-> "100 Main St", Loc_City |-> "Springfield",
                           Loc_ST |-> "IL"],
                          [Loc_Address |-> "1 Mill Rd", Loc_City |-> "Mason",
                           Loc_ST |-> "OH"] >>,
        master_loc |-> << >>, all_codes |-> << "0021", "0536" >> ] }

TwiceInit ==
    /\ pc = "first_run"
    /\ refs \in RefTables \cup LackingTables
    /\ \E name \in Names \cup TenantNames, address \in OriginAddresses,
          type_code \in TwiceTypeCodes :
            arg = [name |-> name, address |-> address, type_code |-> type_code]
    /\ ret = << >>
    /\ finder = None
    /\ locals = Idle /\ row = Idle

\* one run, in a process whose hash seed fixes the order of the token set
TwiceRun ==
    /\ pc \in {"first_run", "second_run"}
    /\ finder' = run_finder(refs)
    /\ \E text_code \in extract_from_text(finder', AsText(arg.name)) :
          ret' = Append(ret, party_codes(refs, arg, text_code))
    /\ pc' = IF pc = "first_run" THEN "second_run" ELSE "runs_done"
    /\ UNCHANGED <<arg, refs, locals, row>>

TwiceNext == TwiceRun

SpecTwice == TwiceInit /\ [][TwiceNext]_vars

\* C22: the pipeline is deterministic: two runs on the same record and the
\* same reference tables yield identical derived columns, also for a name
\* with several distinct candidate tokens of equal length.
C22_Deterministic ==
    pc = "runs_done" => ret[1] = ret[2]

\* the columns of the location table that the address index is built from
DirectoryColumns == {"Loc_Address", "Loc_City", "Loc_ST", "Loc_Code"}

\* the location table has rows and lacks one of those columns
LacksDirectoryColumn(tables) ==
    /\ tables.my_loc # << >>
    /\ \E column \in DirectoryColumns :
          \A i \in 1..Len(tables.my_loc) : column \notin DOMAIN tables.my_loc[i]

\* C23: a missing reference column degrades instead of failing: when the
\* location table lacks the street, city, state or location-code column,
\* each run completes with a result for the record and the record's
\* address-lookup candidate is absent.
C23_MissingColumnDegrades ==
    LacksDirectoryColumn(refs) =>
        /\ Len(ret) = (IF pc = "first_run" THEN 0 ELSE IF pc = "second_run" THEN 1 ELSE 2)
        /\ \A i \in 1..Len(ret) : ret[i].Addr_Lookup_Code = ""

\* both runs are done on a location table without location-code column
\* whose address index has the record's combined address as a key; the
\* lookup found nothing, and the known address kept the text-extracted code
C23_Witness ==
    /\ pc = "runs_done"
    /\ \A i \in 1..Len(refs.my_loc) : "Loc_Code" \notin DOMAIN refs.my_loc[i]
    /\ ret[2].Combined_Address \in DOMAIN finder.address_to_code
    /\ ret[2].Addr_Lookup_Code = ""
    /\ ret[2].Extracted_Code = "0021"
    /\ ret[2].Final_Code = "0021"

-----------------------------------------------------------------------------
(* SpecAlias: main_logic.py, standardize_input_columns on a sheet of one    *)
(* record, given as the sequence of its columns                             *)

\* largest number of columns of an input sheet
MaxColumns == 3

RECURSIVE KeepLowerAlnumFrom(_, _)
KeepLowerAlnumFrom(s, i) ==
    IF i > Len(s) THEN ""
    ELSE (IF Ch(s, i) \in Digits \cup LowerLetters THEN Ch(s, i) ELSE "")
         \o KeepLowerAlnumFrom(s, i + 1)

\* _norm_col: re.sub(r"[^a-z0-9]+", "", str(s).lower())
norm_col(s) == KeepLowerAlnumFrom(Lower(s), 1)

\* FIELD_ALIASES, in the order of the dict
FIELD_ALIASES == <<
    [canonical |-> "Consignor",
     aliases   |-> <<"Consignor", "Origin Facility", "Shipper", "Ship From Name",
                     "Origin Name", "Org Name", "Origin Company", "Org Company",
                     "ShipFromName", "OrgName">>],
    [canonical |-> "Consignee",
     aliases   |-> <<"Consignee", "Destination Facility", "Receiver", "Ship To Name",
                     "Destination Name", "Dest Name", "Dest Company",
                     "Destination Company", "ShipToName", "DestName">>],
    [canonical |-> "Origin Address",
     aliases   |-> <<"Origin Address", "Origin Address1", "Origin Addresss",
                     "Org Address", "Org Address1", "Ship From Address",
                     "Ship From Address1", "Shipper Address", "Shipper Address1">>],
    [canonical |-> "Origin City",
     aliases   |-> <<"Origin City", "Org City", "Ship From City", "Shipper City">>],
    [canonical |-> "Origin State",
     aliases   |-> <<"Origin State", "Origin State Code", "Org State",
                     "Org State Code", "Ship From State", "Ship From State Code">>],
    [canonical |-> "Destination Address",
     aliases   |-> <<"Destination Address", "Destination Address1", "Dest Address",
                     "Dest Address1", "Ship To Address", "Ship To Address1",
                     "Receiver Address", "Receiver Address1">>],
    [canonical |-> "Destination City",
     aliases   |-> <<"Destination City", "Dest City", "Ship To City", "Receiver City">>],
    [canonical |-> "Destination State",
     aliases   |-> <<"Destination State", "Destination State Code", "Dest State",
                     "Dest State Code", "Ship To State", "Ship To State Code">>] >>

\* the positions of the columns of df whose normalized name is the key
columns_with_key(df, key) == {i \in 1..Len(df) : norm_col(df[i].name) = key}

\* _pick_col(df, candidates): norm_map is a dict over df.columns, so of the
\* columns with one normalized name the last one stays in it
pick_col(df, candidates) ==
    LET hits == {k \in 1..Len(candidates) :
                    columns_with_key(df, norm_col(candidates[k])) # {}}
    IN  IF hits = {} THEN None
        ELSE df[SetMax(columns_with_key(df, norm_col(candidates[SetMin(hits)])))].name

\* df[name]
column_value(df, name) == df[CHOOSE i \in 1..Len(df) : df[i].name = name].value

\* df[name] = value: an existing column is replaced, a new one is appended
set_column(df, name, value) ==
    IF \E i \in 1..Len(df) : df[i].name = name
    THEN [i \in 1..Len(df) |->
             IF df[i].name = name THEN [name |-> name, value |-> value] ELSE df[i]]
    ELSE Append(df, [name |-> name, value |-> value])

\* for canonical, aliases in FIELD_ALIASES.items(): ..., from field k on
RECURSIVE assign_canonical_from(_, _)
assign_canonical_from(df, k) ==
    IF k > Len(FIELD_ALIASES) THEN df
    ELSE LET found == pick_col(df, FIELD_ALIASES[k].aliases)
         IN  assign_canonical_from(
                 set_column(df, FIELD_ALIASES[k].canonical,
                            IF found # None THEN column_value(df, found) ELSE ""),
                 k + 1)

\* standardize_input_columns(df): the canonical columns are assigned, then
\* made text
standardize_input_columns(df) ==
    LET assigned == assign_canonical_from(df, 1)
        canonical == {FIELD_ALIASES[k].canonical : k \in 1..Len(FIELD_ALIASES)}
    IN  [i \in 1..Len(assigned) |->
            IF assigned[i].name \in canonical
            THEN [assigned[i] EXCEPT !.value = AsText(@)]
            ELSE assigned[i]]

\* the columns an input sheet can have, each with the value of the record
SheetColumns ==
    { [name |-> "Consignor",      value |-> "ACME 0095"],
      [name |-> "Shipper",        value |-> "Zep 0021"],
      [name |-> "Ship From Name", value |-> "LNK inc"],
      [name |-> "ship_from_name", value |-> "Berry Global"],
      [name |-> "Org City",       value |-> "Akron"],
      [name |-> "Origin City",    value |-> None],
      [name |-> "ORIGIN-CITY",    value |-> "Mason"],
      [name |-> "Carrier Name",   value |-> "Omnitrans"] }

\* the sequences of at most n distinct columns
RECURSIVE SheetsUpTo(_)
SheetsUpTo(n) ==
    IF n = 0 THEN { << >> }
    ELSE LET shorter == SheetsUpTo(n - 1)
         IN  shorter \cup
             {Append(df, c) : df \in {d \in shorter : Len(d) = n - 1},
                              c \in SheetColumns}

HasDistinctColumns(df) ==
    \A i, j \in 1..Len(df) : i # j => df[i].name # df[j].name

AliasInit ==
    /\ pc = "standardize_call"
    /\ arg \in {df \in SheetsUpTo(MaxColumns) : HasDistinctColumns(df)}
    /\ ret = << >>
    /\ refs = Idle /\ finder = Idle /\ locals = Idle /\ row = Idle

AliasStandardize ==
    /\ pc = "standardize_call"
    /\ ret' = standardize_input_columns(arg)
    /\ pc' = "standardize_done"
    /\ UNCHANGED <<arg, refs, finder, locals, row>>

AliasNext == AliasStandardize

SpecAlias == AliasInit /\ [][AliasNext]_vars

\* the input columns whose normalized name is that of the earliest alias of
\* the field that matches some input column
ColumnsOfEarliestAlias(df, k) ==
    LET aliases == FIELD_ALIASES[k].aliases
        hits == {a \in 1..Len(aliases) :
                    columns_with_key(df, norm_col(aliases[a])) # {}}
    IN  IF hits = {} THEN {}
        ELSE columns_with_key(df, norm_col(aliases[SetMin(hits)]))

\* C24: for each canonical field, the standardized sheet has the values, as
\* text, of the input column that matches the earliest matching alias of the
\* field (names compared in normalized form), whichever the order of the
\* input columns, so of whichever input column matches that alias; when no
\* alias matches, the field is the empty string.
C24_EarliestAliasWins ==
    pc = "standardize_done" =>
        \A k \in 1..Len(FIELD_ALIASES) :
            LET columns == ColumnsOfEarliestAlias(arg, k)
                result  == column_value(ret, FIELD_ALIASES[k].canonical)
            IN  IF columns = {} THEN result = ""
                ELSE \A i \in columns : result = AsText(arg[i].value)

-----------------------------------------------------------------------------
(* SpecApp: a session of streamlit_app.py.  Every click makes Streamlit run *)
(* the script from its first line; an action is one such run (two when the  *)
(* script calls st.rerun).  refs is the script's variable refs at the end   *)
(* of the run, locals holds st.session_state, the cache of cached_load_refs *)
(* and the upload widget, arg is the sequence of clicks so far, and ret     *)
(* records the reference tables of every call of run_pipeline.              *)

\* largest number of clicks of a session
MaxClicks == 3

\* the reference workbook as load_refs reads it
SheetTables ==
    [ my_location     |-> << [Loc_Address |-> "100 Main St", Loc_City |-> "Springfield",
                              Loc_ST |-> "IL", Zip_Code |-> "62701", C_C |-> "US",
                              Type_Code |-> "LC", ProfitCtr |-> "P0021",
                              Cost_Center |-> "100", Loc_Code |-> "21"] >>,
      master_location |-> << TypeRow("0021", "LC", "P0021", "100") >>,
      all_codes       |-> << [Codes |-> "0021"] >> ]

\* load_refs(REF_SHEETS)
load_refs == SheetTables

\* cached_load_refs(): the cached tables if there are any, else loaded
cached_load_refs(cache) == IF cache = << >> THEN load_refs ELSE cache[1]

\* the columns of a table of the workbook
columns_of(df) == IF df = << >> THEN {} ELSE DOMAIN df[1]

\* a row given the columns of the table, absent values being NA
with_columns(r, columns) ==
    [c \in columns |-> IF c \in DOMAIN r THEN r[c] ELSE None]

\* append_row(refs, key, row): the row is appended to a copy of refs[key]
append_row(tables, key, r) ==
    LET columns == columns_of(tables[key]) \cup DOMAIN r
        df == [i \in 1..Len(tables[key]) |-> with_columns(tables[key][i], columns)]
    IN  [tables EXCEPT ![key] = Append(df, with_columns(r, columns))]

\* the rows the sidebar can add to MY LOCATION TABLE (the second with the
\* Loc Code input left blank)
MyLocationInputs ==
    { [Loc_Address |-> "Suite 200", Loc_City |-> "Mississauga", Loc_ST |-> "ON",
       Zip_Code |-> "", C_C |-> "CA", Type_Code |-> "", ProfitCtr |-> "",
       Cost_Center |-> "", Loc_Code |-> "0897"],
      [Loc_Address |-> "6001 West Rd", Loc_City |-> "Mason", Loc_ST |-> "OH",
       Zip_Code |-> "", C_C |-> "", Type_Code |-> "", ProfitCtr |-> "",
       Cost_Center |-> ""] }

\* the rows the sidebar can add to the Master Location Table
MasterLocationInputs == { TypeRow("0897", "US DC", "P0897", "7") }

\* the codes the sidebar can add to the codes list
CodeInputs == { "0897", "" }

AppInit ==
    /\ pc = "session"
    /\ arg = << >>
    /\ ret = << >>
    /\ refs = load_refs
    /\ finder = Idle /\ row = Idle
    /\ locals = [ cache    |-> << load_refs >>,
                  uploaded |-> FALSE,
                  pending_ref_changes |->
                      [my_location |-> << >>, master_location |-> << >>,
                       all_codes |-> << >>] ]

\* the script's refs after the run started by a click on an "Add" button
refs_after_add(key, r) == append_row(cached_load_refs(locals.cache), key, r)

\* the session after that run: _ensure_pending_store and the append to the
\* pending rows of the table
session_after_add(key, r) ==
    [locals EXCEPT !.cache = << cached_load_refs(locals.cache) >>,
                   !.pending_ref_changes[key] = Append(@, r)]

\* "Add row (session overlay) -> MY LOCATION TABLE (4)"
AppAddMyLocation ==
    /\ Len(arg) < MaxClicks
    /\ \E r \in MyLocationInputs :
          /\ refs' = refs_after_add("my_location", r)
          /\ locals' = session_after_add("my_location", r)
          /\ arg' = Append(arg, [op |-> "add", key |-> "my_location", row |-> r])
    /\ UNCHANGED <<pc, ret, finder, row>>

\* "Add row (session overlay) -> Master Location Table"
AppAddMasterLocation ==
    /\ Len(arg) < MaxClicks
    /\ \E r \in MasterLocationInputs :
          /\ refs' = refs_after_add("master_location", r)
          /\ locals' = session_after_add("master_location", r)
          /\ arg' = Append(arg, [op |-> "add", key |-> "master_location", row |-> r])
    /\ UNCHANGED <<pc, ret, finder, row>>

\* "Add code (session overlay)"
AppAddCode ==
    /\ Len(arg) < MaxClicks
    /\ \E code \in CodeInputs :
          LET r == [Codes |-> Strip(code)]
          IN  /\ refs' = refs_after_add("all_codes", r)
              /\ locals' = session_after_add("all_codes", r)
              /\ arg' = Append(arg, [op |-> "add", key |-> "all_codes", row |-> r])
    /\ UNCHANGED <<pc, ret, finder, row>>

\* "Clear pending ... rows", shown when the table has pending rows: the
\* pending rows are dropped and st.rerun() runs the script again
AppClearPending ==
    /\ Len(arg) < MaxClicks
    /\ \E key \in DOMAIN locals.pending_ref_changes :
          /\ Len(locals.pending_ref_changes[key]) > 0
          /\ locals' = [locals EXCEPT
                  !.cache = << cached_load_refs(locals.cache) >>,
                  !.pending_ref_changes[key] = << >>]
          /\ arg' = Append(arg, [op |-> "clear", key |-> key])
    /\ refs' = cached_load_refs(locals'.cache)
    /\ UNCHANGED <<pc, ret, finder, row>>

\* "Refresh refs from Google Sheets": the cache is cleared and st.rerun()
\* runs the script again, which loads the tables
AppRefresh ==
    /\ Len(arg) < MaxClicks
    /\ refs' = cached_load_refs(<< >>)
    /\ locals' = [locals EXCEPT !.cache = << refs' >>]
    /\ arg' = Append(arg, [op |-> "refresh"])
    /\ UNCHANGED <<pc, ret, finder, row>>

\* a file is put into the uploader of Main Automation
AppUpload ==
    /\ Len(arg) < MaxClicks
    /\ ~locals.uploaded
    /\ refs' = cached_load_refs(locals.cache)
    /\ locals' = [locals EXCEPT !.uploaded = TRUE,
                                !.cache = << cached_load_refs(locals.cache) >>]
    /\ arg' = Append(arg, [op |-> "upload"])
    /\ UNCHANGED <<pc, ret, finder, row>>

\* "Run Main Automation", enabled when a file is uploaded: no "Add" button
\* is clicked in this run of the script, and run_pipeline is called with
\* the tables of refs
AppRunMain ==
    /\ Len(arg) < MaxClicks
    /\ locals.uploaded
    /\ refs' = cached_load_refs(locals.cache)
    /\ locals' = [locals EXCEPT !.cache = << cached_load_refs(locals.cache) >>]
    /\ ret' = Append(ret, [click |-> Len(arg) + 1, tables |-> refs'])
    /\ arg' = Append(arg, [op |-> "run"])
    /\ UNCHANGED <<pc, finder, row>>

AppNext ==
    \/ AppAddMyLocation
    \/ AppAddMasterLocation
    \/ AppAddCode
    \/ AppClearPending
    \/ AppRefresh
    \/ AppUpload
    \/ AppRunMain

SpecApp == AppInit /\ [][AppNext]_vars

\* the table has a row with the values of the added row
HasRow(df, r) ==
    \E j \in 1..Len(df) :
        \A c \in DOMAIN r : c \in DOMAIN df[j] /\ df[j][c] = r[c]

\* click i added a row and no refresh lies between it and click n
AddedBefore(i, n) ==
    /\ i < n
    /\ arg[i].op = "add"
    /\ \A j \in (i + 1)..(n - 1) : arg[j].op # "refresh"

\* C26: the session overlay reaches the pipeline: the reference tables of
\* every call of run_pipeline include every row that an "Add" click put into
\* the overlay earlier in the session with no refresh in between.
C26_OverlayReachesPipeline ==
    \A k \in 1..Len(ret) :
        \A i \in 1..Len(arg) :
            AddedBefore(i, ret[k].click) =>
                HasRow(ret[k].tables[arg[i].key], arg[i].row)

=============================================================================
